---------------------------- MODULE Spec2Model ----------------------------
(***************************************************************************)
(* A model of the complex-valued normalisation code of complextorch:       *)
(* inv_sqrtm2x2, _whiten2x2_batch_norm and cv_batch_norm                   *)
(* (nn/functional.py) and the shape assertions of the layer-norm and       *)
(* weighted-Frechet-mean convolution code (nn/modules/manifold.py); of the *)
(* layers that multiply by Gauss' trick, Linear (nn/modules/linear.py),    *)
(* Conv1d and ConvTranspose1d (nn/modules/conv.py); of the split and       *)
(* error losses (nn/modules/loss.py); and of the polar activations         *)
(* (nn/modules/activation/split_type_B.py, apply_complex_polar).           *)
(*                                                                         *)
(* Numbers.  A tensor element is an exact rational [n |-> p, d |-> q],     *)
(* q > 0, in lowest terms, or one of the three IEEE specials, written with *)
(* d = 0: +inf = 1/0, -inf = -1/0, nan = 0/0.  Rounding and signed zeros   *)
(* are not modelled.  torch.sqrt of a positive rational that is no square  *)
(* of a rational has no value among these numbers; it is the value Surd,   *)
(* every operation keeps it, and the inputs of every action are the ones   *)
(* whose computation never meets it.                                       *)
(*                                                                         *)
(* Tensors.  A tensor is [shape |-> <<n1, ..., nk>>, data |-> e], e the    *)
(* sequence of its elements in row-major order.  Indices and dimension     *)
(* numbers are 1-based here: dimension i of the model is dimension i-1 of  *)
(* the Python code, component 1 is the real part and 2 the imaginary part. *)
(*                                                                         *)
(* Logarithms and angles.  torch.log of a rational is kept as a pair       *)
(* [lo, hi] of rationals that enclose it, and an angle as the point        *)
(* [cos, sin] it has on the unit circle.                                   *)
(*                                                                         *)
(* Local values.  CHOOSE v \in {e : r \in {d}} : TRUE is e with r standing  *)
(* for the value of d, as LET r == d IN e is; it is written so where r is  *)
(* used several times in e, because TLC then evaluates d once.             *)
(*                                                                         *)
(* The forward passes of the weighted-Frechet-mean layers are modelled by  *)
(* the shapes of their tensors only: how a call ends and the shape of what *)
(* it returns, not the values of the elements.                             *)
(***************************************************************************)
EXTENDS Integers, Sequences, FiniteSets, TLC

---------------------------------------------------------------------------
(* Extended rational numbers                                               *)

Abs(i) == IF i < 0 THEN -i ELSE i

Sign(i) == IF i < 0 THEN -1 ELSE IF i > 0 THEN 1 ELSE 0

RECURSIVE GCD(_, _)
GCD(a, b) == IF b = 0 THEN a ELSE GCD(b, a % b)

Surd == [n |-> 0, d |-> -1]

NaN == [n |-> 0, d |-> 0]

Inf == [n |-> 1, d |-> 0]

IsSurd(a) == a.d < 0

IsFinite(a) == a.d > 0

\* The number p/q: lowest terms, positive denominator; p/0 is a special.
Rat(p, q) ==
    IF q = 0 THEN [n |-> Sign(p), d |-> 0]
    ELSE LET g == GCD(Abs(p), Abs(q))
         IN  [n |-> Sign(q) * (p \div g), d |-> Abs(q) \div g]

Int2R(i) == [n |-> i, d |-> 1]

Zero == Int2R(0)

One == Int2R(1)

RAdd(a, b) ==
    IF IsSurd(a) \/ IsSurd(b) THEN Surd
    ELSE IF a.d = 0 /\ b.d = 0 THEN (IF a.n = b.n THEN a ELSE NaN)
    ELSE Rat(a.n * b.d + b.n * a.d, a.d * b.d)

RNeg(a) == IF IsSurd(a) THEN Surd ELSE [n |-> -a.n, d |-> a.d]

RSub(a, b) == RAdd(a, RNeg(b))

RMul(a, b) ==
    IF IsSurd(a) \/ IsSurd(b) THEN Surd
    ELSE Rat(a.n * b.n, a.d * b.d)

\* 1 / a, with 1/0 = inf and 1/inf = 0.
RRecip(a) ==
    IF IsSurd(a) THEN Surd
    ELSE IF a.n < 0 THEN [n |-> -a.d, d |-> -a.n]
    ELSE [n |-> a.d, d |-> a.n]

RDiv(a, b) == RMul(a, RRecip(b))

RLess(a, b) == IsFinite(a) /\ IsFinite(b) /\ a.n * b.d < b.n * a.d

RECURSIVE ISqrtFrom(_, _)
ISqrtFrom(m, r) == IF r * r >= m THEN r ELSE ISqrtFrom(m, r + 1)

\* The least r with r * r >= m.
ISqrt(m) == ISqrtFrom(m, 0)

IsSquare(m) == ISqrt(m) * ISqrt(m) = m

\* torch.sqrt: nan for a negative number or nan, inf for inf.
RSqrt(a) ==
    IF IsSurd(a) THEN Surd
    ELSE IF a.n < 0 THEN NaN
    ELSE IF a.d = 0 THEN a
    ELSE IF IsSquare(a.n) /\ IsSquare(a.d)
         THEN [n |-> ISqrt(a.n), d |-> ISqrt(a.d)]
    ELSE Surd

---------------------------------------------------------------------------
(* Tensors                                                                 *)

\* Python's None, for an optional tensor and for the y of the symmetric case.
None == [none |-> TRUE]

RECURSIVE Prod(_)
Prod(s) == IF Len(s) = 0 THEN 1 ELSE Head(s) * Prod(Tail(s))

\* The row-major position (from 0) of index t in shape s, and back.
RECURSIVE Flat(_, _)
Flat(t, s) ==
    IF Len(s) = 0 THEN 0
    ELSE (Head(t) - 1) * Prod(Tail(s)) + Flat(Tail(t), Tail(s))

RECURSIVE Unflat(_, _)
Unflat(k, s) ==
    IF Len(s) = 0 THEN <<>>
    ELSE <<(k \div Prod(Tail(s))) + 1>> \o Unflat(k % Prod(Tail(s)), Tail(s))

\* The tensor of a shape with f(i) as its i-th element in row-major order.
\* (Merging with the empty function makes TLC tabulate the elements once,
\* instead of keeping the expression and evaluating it again at every use.)
Tensor(shape, f(_)) ==
    [shape |-> shape, data |-> [i \in 1..Prod(shape) |-> f(i)] @@ <<>>]

\* The tensor of a shape with g(t) at index t.
TensorAt(shape, g(_)) == Tensor(shape, LAMBDA i : g(Unflat(i - 1, shape)))

Numel(x) == Len(x.data)

Dim(x) == Len(x.shape)

\* The element of x at index t.
At(x, t) == x.data[Flat(t, x.shape) + 1]

\* s with leading 1s, to n dimensions: broadcasting aligns shapes at the right.
PadShape(s, n) ==
    [i \in 1..n |-> IF i <= n - Len(s) THEN 1 ELSE s[i - (n - Len(s))]]

Broadcastable(s1, s2) ==
    LET n == IF Len(s1) > Len(s2) THEN Len(s1) ELSE Len(s2)
        a == PadShape(s1, n)
        b == PadShape(s2, n)
    IN  \A i \in 1..n : a[i] = b[i] \/ a[i] = 1 \/ b[i] = 1

BroadcastShape(s1, s2) ==
    LET n == IF Len(s1) > Len(s2) THEN Len(s1) ELSE Len(s2)
        a == PadShape(s1, n)
        b == PadShape(s2, n)
    IN  [i \in 1..n |-> IF a[i] = 1 THEN b[i] ELSE a[i]]

\* The element of x that index t of a broadcast result reads.
BAt(x, t) ==
    LET k == Len(t) - Dim(x)
    IN  At(x, [i \in 1..Dim(x) |-> IF x.shape[i] = 1 THEN 1 ELSE t[i + k]])

\* An elementwise binary operation of two broadcastable tensors.
TBin(Op(_, _), x, y) ==
    IF x.shape = y.shape
    THEN Tensor(x.shape, LAMBDA i : Op(x.data[i], y.data[i]))
    ELSE TensorAt(BroadcastShape(x.shape, y.shape),
                  LAMBDA t : Op(BAt(x, t), BAt(y, t)))

TMap(Op(_), x) == Tensor(x.shape, LAMBDA i : Op(x.data[i]))

TAdd(x, y) == TBin(RAdd, x, y)

TSub(x, y) == TBin(RSub, x, y)

TMul(x, y) == TBin(RMul, x, y)

\* A Python number times a tensor, and plus a tensor.
TScale(c, x) == TMap(LAMBDA v : RMul(c, v), x)

TShift(x, c) == TMap(LAMBDA v : RAdd(v, c), x)

TNeg(x) == TMap(RNeg, x)

TSqrt(x) == TMap(RSqrt, x)

TRecip(x) == TMap(RRecip, x)

\* An in-place x op= y succeeds only when broadcasting leaves x's shape.
InPlaceOk(x, y) ==
    Broadcastable(x.shape, y.shape) /\ BroadcastShape(x.shape, y.shape) = x.shape

\* The sum of the elements 1..i of x that lie in the cell of index t: the
\* elements whose index agrees with t outside the axes.
RECURSIVE CellSum(_, _, _, _)
CellSum(x, axes, t, i) ==
    IF i = 0 THEN Zero
    ELSE LET u == Unflat(i - 1, x.shape)
         IN  IF \A k \in 1..Dim(x) : k \in axes \/ u[k] = t[k]
             THEN RAdd(x.data[i], CellSum(x, axes, t, i - 1))
             ELSE CellSum(x, axes, t, i - 1)

\* The number of elements of a cell: the product of the sizes of the axes.
CellSize(x, axes) ==
    Prod([k \in 1..Dim(x) |-> IF k \in axes THEN x.shape[k] ELSE 1])

\* x.mean(dim=axes, keepdim=True)
MeanKeep(x, axes) ==
    TensorAt([k \in 1..Dim(x) |-> IF k \in axes THEN 1 ELSE x.shape[k]],
             LAMBDA t : RDiv(CellSum(x, axes, t, Numel(x)),
                             Int2R(CellSize(x, axes))))

\* The positions 1..n that are in keep, in order.
RECURSIVE Kept(_, _)
Kept(n, keep) ==
    IF n = 0 THEN <<>>
    ELSE IF n \in keep THEN Append(Kept(n - 1, keep), n) ELSE Kept(n - 1, keep)

\* x without the dimensions outside keep, each of which has size 1: the
\* elements keep their order.
DropDims(x, keep) ==
    LET pos == Kept(Dim(x), keep)
    IN  [shape |-> [j \in 1..Len(pos) |-> x.shape[pos[j]]], data |-> x.data]

\* x.mean(dim=axes)
Mean(x, axes) == DropDims(MeanKeep(x, axes), (1..Dim(x)) \ axes)

\* x.squeeze(): every dimension of size 1 is removed.
Squeeze(x) == DropDims(x, {i \in 1..Dim(x) : x.shape[i] # 1})

\* x[k]: the k-th slice along the first dimension.
Select(x, k) ==
    LET m == Prod(Tail(x.shape))
    IN  [shape |-> Tail(x.shape), data |-> SubSeq(x.data, (k - 1) * m + 1, k * m)]

RECURSIVE Concat(_)
Concat(xs) == IF Len(xs) = 0 THEN <<>> ELSE Head(xs).data \o Concat(Tail(xs))

\* torch.stack(xs, dim=0) of tensors of one shape.
Stack(xs) == [shape |-> <<Len(xs)>> \o xs[1].shape, data |-> Concat(xs)]

\* x.view(shape) of a contiguous tensor with as many elements.
View(x, shape) == [shape |-> shape, data |-> x.data]

HasSurd(x) == \E i \in 1..Numel(x) : IsSurd(x.data[i])

AllFinite(x) == \A i \in 1..Numel(x) : IsFinite(x.data[i])

---------------------------------------------------------------------------
(* nn/functional.py                                                        *)

\* inv_sqrtm2x2 with coeff = 1 / t in the general case.
InvSqrtCoeffT(a, b, c, d, symmetric) ==
    LET delta == TSub(TMul(a, d), TMul(b, IF symmetric THEN b ELSE c))
        tau == TAdd(a, d)
        s == TSqrt(delta)
        t == TSqrt(TAdd(tau, TScale(Int2R(2), s)))
        coeff == IF symmetric THEN TRecip(TMul(s, t)) ELSE TRecip(t)
    IN  <<TMul(coeff, TAdd(d, s)), TMul(TNeg(coeff), b),
          IF symmetric THEN None ELSE TMul(TNeg(coeff), c),
          TMul(coeff, TAdd(a, s))>>

\* inv_sqrtm2x2 with x = coeff * b in the symmetric case.
InvSqrtSymPlusX(a, b, c, d, symmetric) ==
    LET delta == TSub(TMul(a, d), TMul(b, IF symmetric THEN b ELSE c))
        tau == TAdd(a, d)
        s == TSqrt(delta)
        t == TSqrt(TAdd(tau, TScale(Int2R(2), s)))
        coeff == TRecip(TMul(s, t))
    IN  <<TMul(coeff, TAdd(d, s)),
          IF symmetric THEN TMul(coeff, b) ELSE TMul(TNeg(coeff), b),
          IF symmetric THEN None ELSE TMul(TNeg(coeff), c),
          TMul(coeff, TAdd(a, s))>>

\* inv_sqrtm2x2: <<w, x, y, z>>, elementwise on tensors of one shape.
inv_sqrtm2x2(a, b, c, d, symmetric) ==
    IF symmetric
    THEN LET delta == TSub(TMul(a, d), TMul(b, b))
             tau == TAdd(a, d)
             s == TSqrt(delta)
             t == TSqrt(TAdd(tau, TScale(Int2R(2), s)))
             coeff == TRecip(TMul(s, t))
         IN  <<TMul(coeff, TAdd(d, s)), TMul(TNeg(coeff), b), None,
               TMul(coeff, TAdd(a, s))>>
    ELSE LET delta == TSub(TMul(a, d), TMul(b, c))
             tau == TAdd(a, d)
             s == TSqrt(delta)
             t == TSqrt(TAdd(tau, TScale(Int2R(2), s)))
             coeff == TRecip(TMul(s, t))
         IN  <<TMul(coeff, TAdd(d, s)), TMul(TNeg(coeff), b),
               TMul(TNeg(coeff), c), TMul(coeff, TAdd(a, s))>>

\* PairOk without its assertion on a first argument given alone.
PairOkFirstAlone(first, second) ==
    (first = None /\ second = None) \/ first # None

\* Lines 240-245: an optional pair is given whole or not at all.
PairOk(first, second) ==
    (first = None /\ second = None) \/ (first # None /\ second # None)

\* UseBatch ignoring the training flag.
UseBatchAlways(training, running) == TRUE

\* Lines 142 and 154: the statistics of the batch are used in training, and
\* when no running statistic is given.
UseBatch(training, running) == training \/ running = None

\* What a call leaves: how it ended, its return value (None when it raised) and
\* the two tensors it updates in place.
Outcome(status, z, running_mean, running_cov) ==
    [status |-> status, z |-> z, running_mean |-> running_mean,
     running_cov |-> running_cov]

Ones(n) == [i \in 1..n |-> 1]

\* The axes (1, 3, 4, ...) of a tensor 2 x B x F x ...: here 2, 4, 5, ...
BatchAxes(x) == {2} \cup (4..Dim(x))

\* running_mean += momentum * (mean.data.squeeze() - running_mean)
MeanStep(mean, running_mean, momentum) ==
    TScale(momentum, TSub(Squeeze(mean), running_mean))

\* torch.stack([v_rr, v_ir, v_ir, v_ii], dim=0).view(2, 2, -1)
CovOf(v_rr, v_ir, v_ii) ==
    View(Stack(<<v_rr, v_ir, v_ir, v_ii>>), <<2, 2, Numel(v_rr)>>)

\* Whiten with p in the place of s in the second row.
WhitenSecondRowP(x, tail, v_rr, v_ir, v_ii) ==
    CHOOSE z \in
        {Stack(<<TAdd(TMul(Select(x, 1), View(r[1], tail)),
                      TMul(Select(x, 2), View(r[2], tail))),
                 TAdd(TMul(Select(x, 1), View(r[2], tail)),
                      TMul(Select(x, 2), View(r[1], tail)))>>)
         : r \in {inv_sqrtm2x2(v_rr, v_ir, None, v_ii, TRUE)}} : TRUE

\* The whitening of lines 174-184, from the centered x and the covariance:
\* r = (p, q, None, s) is what inv_sqrtm2x2 returns.
Whiten(x, tail, v_rr, v_ir, v_ii) ==
    CHOOSE z \in
        {Stack(<<TAdd(TMul(Select(x, 1), View(r[1], tail)),
                      TMul(Select(x, 2), View(r[2], tail))),
                 TAdd(TMul(Select(x, 1), View(r[2], tail)),
                      TMul(Select(x, 2), View(r[4], tail)))>>)
         : r \in {inv_sqrtm2x2(v_rr, v_ir, None, v_ii, TRUE)}} : TRUE

\* Lines 153-184: the covariance, its running update and the whitening, with x
\* centered and running_mean as the first half of the function left it.
WhitenCentered(x, training, running_mean, running_cov, momentum, eps) ==
    LET axes == BatchAxes(x)
        tail == <<1, x.shape[3]>> \o Ones(Dim(x) - 3)
        rows == View(running_cov, <<4, Numel(running_cov) \div 4>>)
    IN  IF UseBatch(training, running_cov)
        THEN CHOOSE o \in
               {LET cov == CovOf(Select(var, 1), v_ir, Select(var, 2))
                IN  IF running_cov # None
                       /\ ~(Broadcastable(cov.shape, running_cov.shape)
                            /\ InPlaceOk(running_cov, TSub(cov, running_cov)))
                    THEN Outcome("RuntimeError", None, running_mean, running_cov)
                    ELSE Outcome("ok",
                                 Whiten(x, tail, Select(var, 1), v_ir,
                                        Select(var, 2)),
                                 running_mean,
                                 IF running_cov = None THEN running_cov
                                 ELSE TAdd(running_cov,
                                           TScale(momentum,
                                                  TSub(cov, running_cov))))
                : var \in {TShift(Mean(TMul(x, x), axes), eps)},
                  v_ir \in {Mean(TMul(Select(x, 1), Select(x, 2)),
                                 {a - 1 : a \in axes})}} : TRUE
        ELSE IF Numel(running_cov) % 4 # 0
                \/ Numel(running_cov) \div 4 # x.shape[3]
             THEN Outcome("RuntimeError", None, running_mean, running_cov)
             \* v_rr, v_ir, v_ir, v_ii = running_cov.view(4, -1): the second
             \* assignment of v_ir, row 3, is the one that stays.
             ELSE Outcome("ok",
                          Whiten(x, tail, Select(rows, 1), Select(rows, 3),
                                 Select(rows, 4)),
                          running_mean, running_cov)

\* _whiten2x2_batch_norm of the stacked tensor x (2 x B x F x ...).
whiten2x2_batch_norm(x, training, running_mean, running_cov, momentum, eps) ==
    IF ~(Dim(x) >= 3)
    THEN Outcome("AssertionError", None, running_mean, running_cov)
    ELSE IF UseBatch(training, running_mean)
    THEN CHOOSE o \in
           {IF running_mean # None
               /\ ~(Broadcastable(Squeeze(mean).shape, running_mean.shape)
                    /\ InPlaceOk(running_mean,
                                 MeanStep(mean, running_mean, momentum)))
            THEN Outcome("RuntimeError", None, running_mean, running_cov)
            ELSE WhitenCentered(TSub(x, mean), training,
                                IF running_mean = None THEN running_mean
                                ELSE TAdd(running_mean,
                                          MeanStep(mean, running_mean, momentum)),
                                running_cov, momentum, eps)
            : mean \in {MeanKeep(x, BatchAxes(x))}} : TRUE
    ELSE IF ~InPlaceOk(x, running_mean)
    THEN Outcome("RuntimeError", None, running_mean, running_cov)
    ELSE WhitenCentered(TSub(x, running_mean), training, running_mean,
                        running_cov, momentum, eps)

\* A CVTensor: its real and imaginary parts, two tensors of one shape.
CVTensor(re, im) == [real |-> re, imag |-> im]

\* Affine with weight[0, 1] and weight[1, 0] in each other's place.
AffineTransposed(x, z, weight, bias) ==
    LET shape == <<1, x.shape[3]>> \o Ones(Dim(x) - 3)
        w == View(weight, <<2, 2>> \o shape)
        w11 == Select(Select(w, 1), 1)
        w12 == Select(Select(w, 1), 2)
        w21 == Select(Select(w, 2), 1)
        w22 == Select(Select(w, 2), 2)
        z0 == Select(z, 1)
        z1 == Select(z, 2)
    IN  TAdd(Stack(<<TAdd(TMul(z0, w11), TMul(z1, w21)),
                     TAdd(TMul(z0, w12), TMul(z1, w22))>>),
             View(bias, <<2>> \o shape))

\* Lines 260-270: the affine transformation of the whitened z.
Affine(x, z, weight, bias) ==
    LET shape == <<1, x.shape[3]>> \o Ones(Dim(x) - 3)
        w == View(weight, <<2, 2>> \o shape)
        w11 == Select(Select(w, 1), 1)
        w12 == Select(Select(w, 1), 2)
        w21 == Select(Select(w, 2), 1)
        w22 == Select(Select(w, 2), 2)
        z0 == Select(z, 1)
        z1 == Select(z, 2)
    IN  TAdd(Stack(<<TAdd(TMul(z0, w11), TMul(z1, w12)),
                     TAdd(TMul(z0, w21), TMul(z1, w22))>>),
             View(bias, <<2>> \o shape))

\* What _whiten2x2_batch_norm hands to inv_sqrtm2x2.
\* Lines 142-151: the batch x [2, B, F, ...] less its mean or the running
\* mean.
Centered(x, training, running_mean) ==
    IF UseBatch(training, running_mean)
    THEN TSub(x, MeanKeep(x, BatchAxes(x)))
    ELSE TSub(x, running_mean)

\* The covariance of the batch without the ridge coefficient.
BatchCovNoRidge(x, eps) ==
    CHOOSE c \in
      {[v_rr |-> Select(var, 1), v_ii |-> Select(var, 2),
        v_ir |-> Mean(TMul(Select(x, 1), Select(x, 2)),
                      {a - 1 : a \in BatchAxes(x)})]
       : var \in {Mean(TMul(x, x), BatchAxes(x))}} : TRUE

\* Lines 155-158: v_rr, v_ii and v_ir of the centred batch x, each of
\* shape [F].
BatchCov(x, eps) ==
    CHOOSE c \in
      {[v_rr |-> Select(var, 1), v_ii |-> Select(var, 2),
        v_ir |-> Mean(TMul(Select(x, 1), Select(x, 2)),
                      {a - 1 : a \in BatchAxes(x)})]
       : var \in {TShift(Mean(TMul(x, x), BatchAxes(x)), eps)}} : TRUE

\* cv_batch_norm: the outcome, z a CVTensor when the call returns.
cv_batch_norm(x, running_mean, running_var, weight, bias, training, momentum, eps) ==
    IF ~PairOk(running_mean, running_var)
    THEN Outcome("AssertionError", None, running_mean, running_var)
    ELSE IF ~PairOk(weight, bias)
    THEN Outcome("AssertionError", None, running_mean, running_var)
    ELSE LET xs == Stack(<<x.real, x.imag>>)
         IN  CHOOSE o \in
               {IF r.status # "ok" THEN r
                ELSE IF weight # None /\ bias # None
                THEN IF Numel(weight) # 4 * xs.shape[3]
                        \/ Numel(bias) # 2 * xs.shape[3]
                     THEN Outcome("RuntimeError", None, r.running_mean,
                                  r.running_cov)
                     ELSE LET z == Affine(xs, r.z, weight, bias)
                          IN  Outcome("ok", CVTensor(Select(z, 1), Select(z, 2)),
                                      r.running_mean, r.running_cov)
                ELSE Outcome("ok", CVTensor(Select(r.z, 1), Select(r.z, 2)),
                             r.running_mean, r.running_cov)
                : r \in {whiten2x2_batch_norm(xs, training, running_mean,
                                              running_var, momentum, eps)}} : TRUE

\* The last n axes of x.
LastAxes(x, n) == (Dim(x) - n + 1)..Dim(x)

\* Lines 309-318: the whitening of the centered x, head the shape of the
\* statistics with the axes kept.
LayerWhiten(x, head, v_rr, v_ir, v_ii) ==
    CHOOSE z \in
        {Stack(<<TAdd(TMul(Select(x, 1), View(r[1], head)),
                      TMul(Select(x, 2), View(r[2], head))),
                 TAdd(TMul(Select(x, 1), View(r[2], head)),
                      TMul(Select(x, 2), View(r[4], head)))>>)
         : r \in {inv_sqrtm2x2(v_rr, v_ir, None, v_ii, TRUE)}} : TRUE

\* Lines 300-318: the covariance over the axes and the whitening, with x
\* centered.
LayerCentered(x, head, axes, eps) ==
    CHOOSE o \in
        {Outcome("ok",
                 LayerWhiten(x, head, Select(var, 1), v_ir, Select(var, 2)),
                 None, None)
         : var \in {TShift(Mean(TMul(x, x), axes), eps)},
           v_ir \in {Mean(TMul(Select(x, 1), Select(x, 2)),
                          {a - 1 : a \in axes})}} : TRUE

\* _whiten2x2_layer_norm with the batch axis among the axes of the mean and
\* the covariance.
LayerNormOverBatch(x, n, eps) ==
    IF ~(Dim(x) >= 3)
    THEN Outcome("AssertionError", None, None, None)
    ELSE IF n >= Dim(x)
    THEN Outcome("IndexError", None, None, None)
    ELSE CHOOSE o \in
           {LayerCentered(TSub(x, mean), Tail(mean.shape),
                          {2} \cup LastAxes(x, n), eps)
            : mean \in {MeanKeep(x, {2} \cup LastAxes(x, n))}} : TRUE

\* _whiten2x2_layer_norm of the stacked tensor x (2 x B x F x ...), for a
\* normalized_shape of n >= 1 entries.
whiten2x2_layer_norm(x, n, eps) ==
    IF ~(Dim(x) >= 3)
    THEN Outcome("AssertionError", None, None, None)
    \* mean(dim=axes) has no axis -(n + 1) + 1 to reduce when n > x.dim(), and
    \* leaves var without a first axis to index when n = x.dim().
    ELSE IF n >= Dim(x)
    THEN Outcome("IndexError", None, None, None)
    ELSE CHOOSE o \in
           {LayerCentered(TSub(x, mean), Tail(mean.shape), LastAxes(x, n), eps)
            : mean \in {MeanKeep(x, LastAxes(x, n))}} : TRUE

\* Lines 342-350: the affine transformation of cv_layer_norm, weight given.
LayerAffine(x, z, normalized_shape, weight, bias) ==
    LET shape == Ones(Dim(x) - 1 - Len(normalized_shape)) \o normalized_shape
        w == View(weight, <<2, 2>> \o shape)
        z0 == Select(z, 1)
        z1 == Select(z, 2)
        zw == Stack(<<TAdd(TMul(z0, Select(Select(w, 1), 1)),
                           TMul(z1, Select(Select(w, 1), 2))),
                      TAdd(TMul(z0, Select(Select(w, 2), 1)),
                           TMul(z1, Select(Select(w, 2), 2)))>>)
    IN  IF Numel(weight) # 4 * Prod(shape)
           \/ ~Broadcastable(z0.shape, shape)
        THEN Outcome("RuntimeError", None, None, None)
        ELSE IF bias = None
        THEN Outcome("AttributeError", None, None, None)
        ELSE IF Numel(bias) # 2 * Prod(shape)
                \/ ~Broadcastable(zw.shape, <<2>> \o shape)
        THEN Outcome("RuntimeError", None, None, None)
        ELSE Outcome("ok", TAdd(zw, View(bias, <<2>> \o shape)), None, None)

\* cv_layer_norm: the outcome, z a CVTensor when the call returns.
cv_layer_norm(x, normalized_shape, weight, bias, eps) ==
    LET xs == Stack(<<x.real, x.imag>>)
    IN  CHOOSE o \in
          {IF r.status # "ok" THEN r
           ELSE CHOOSE oa \in
                  {IF a.status # "ok" THEN a
                   ELSE Outcome("ok", CVTensor(Select(a.z, 1), Select(a.z, 2)),
                                None, None)
                   : a \in {IF weight # None
                            THEN LayerAffine(xs, r.z, normalized_shape, weight,
                                             bias)
                            ELSE r}} : TRUE
           : r \in {whiten2x2_layer_norm(xs, Len(normalized_shape), eps)}} : TRUE

---------------------------------------------------------------------------
(* nn/modules/manifold.py, by shapes                                       *)

\* A tensor of which only the shape is followed.
OfShape(shape) == [shape |-> shape]

Min(i, j) == IF i < j THEN i ELSE j

\* compute_output_shape, the same in both classes: zip stops at the shorter
\* of input_shape and the pairs of the layer.
compute_output_shape(self, input_shape) ==
    [i \in 1..Min(Len(input_shape), 2) |->
        ((input_shape[i] + 2 * self.padding[i] - (self.kernel_size[i] - 1) - 1)
            \div self.stride[i]) + 1]

\* _wFMConv2dHelper.forward on a tensor of shape xs.
wFMConv2dHelper_forward(self, xs) ==
    IF Len(xs) < 3
    THEN Outcome("ValueError", None, None, None)
    ELSE IF ~(xs[2] = 2)
    THEN Outcome("AssertionError", None, None, None)
    ELSE IF ~(xs[3] = self.in_channels)
    THEN Outcome("AssertionError", None, None, None)
    ELSE LET input_shape == SubSeq(xs, 4, Len(xs))
             output_shape == compute_output_shape(self, input_shape)
         IN  \* nn.Unfold and the views and permutes after it take two
             \* spatial axes, and at least one block along each.
             IF Len(input_shape) # 2 \/ \E i \in 1..2 : output_shape[i] < 1
             THEN Outcome("RuntimeError", None, None, None)
             ELSE Outcome("ok",
                          OfShape(<<xs[1], 2, self.out_channels>> \o output_shape),
                          None, None)

\* wFMConv2d.forward without its assertion on the channels.
wFMConv2d_forward_unchecked(self, xs) ==
    IF Len(xs) < 2
    THEN Outcome("ValueError", None, None, None)
    ELSE LET input_shape == SubSeq(xs, 3, Len(xs))
             output_shape == compute_output_shape(self, input_shape)
         IN  IF Len(input_shape) # 2 \/ \E i \in 1..2 : output_shape[i] < 1
                \/ xs[2] # self.in_channels
             THEN Outcome("RuntimeError", None, None, None)
             ELSE Outcome("ok", OfShape(<<xs[1], self.out_channels>> \o output_shape),
                          None, None)

\* wFMConv2d.forward on a CVTensor of shape xs: the helper is called with
\* in_fold, of shape (batch_size, 2, in_channels, *input_shape), and the two
\* halves of its result are the polar form of the output.
wFMConv2d_forward(self, xs) ==
    IF Len(xs) < 2
    THEN Outcome("ValueError", None, None, None)
    ELSE IF ~(xs[2] = self.in_channels)
    THEN Outcome("AssertionError", None, None, None)
    ELSE LET input_shape == SubSeq(xs, 3, Len(xs))
             output_shape == compute_output_shape(self, input_shape)
             x_out == wFMConv2dHelper_forward(self, <<xs[1], 2, xs[2]>> \o input_shape)
         IN  IF Len(input_shape) # 2 \/ \E i \in 1..2 : output_shape[i] < 1
             THEN Outcome("RuntimeError", None, None, None)
             ELSE IF x_out.status # "ok" THEN x_out
             ELSE Outcome("ok",
                          OfShape(<<x_out.z.shape[1]>> \o SubSeq(x_out.z.shape, 3, 5)),
                          None, None)

---------------------------------------------------------------------------
(* The state: the caller's running statistics and the last call            *)

VARIABLES
    running_mean,   \* the running mean [2, F], updated in place by training calls
    running_var,    \* the running covariance [2, 2, F], likewise
    updates,        \* in-place updates of the running statistics so far
    pc,             \* "idle", or "returned" while the caller holds a result
    call,           \* the arguments of the call that returned last
    res,            \* its Outcome
    layer           \* the fields of the wFMConv2d layer the caller constructed

vars == <<running_mean, running_var, updates, pc, call, res, layer>>

\* No layer was constructed.
NoLayer == [kind |-> "none"]

NoCall == [op |-> "none"]

\* Bounds of the model.
MaxFeatures == 2

MaxBatch == 2

MaxSpatial == 2

MaxUpdates == 1

\* momentum: float = 0.1
Momentum == Rat(1, 10)

\* The ridge coefficients tried: none, and one whose sum with the variances of
\* the inputs below has a rational square root.
EpsSet == {Zero, Rat(9, 16)}

\* Input data.  The points of a feature are taken in turn from one of three
\* patterns: the corners of a square (covariance I), their image under the
\* symmetric matrix [[3, 4], [4, 6]] moved by 1 (covariance its square), and
\* a constant.  Feature f of sample k follows pattern k + f - 1, so the
\* features of one input differ.
Corner == <<<<1, 1>>, <<-1, 1>>, <<1, -1>>, <<-1, -1>>>>

Kinds == <<"unit", "skew", "const">>

Pattern(k, i) ==
    LET c == Corner[((i - 1) % 4) + 1]
    IN  CASE k = "unit" -> c
          [] k = "skew" -> <<3 * c[1] + 4 * c[2] + 1, 4 * c[1] + 6 * c[2]>>
          [] k = "const" -> <<1, 2>>

KindOf(k, f) == Kinds[((k + f - 2) % Len(Kinds)) + 1]

\* The position of element t among the elements of its feature.
PointNo(t, shape) ==
    Flat(<<t[1]>> \o SubSeq(t, 3, Len(t)),
         <<shape[1]>> \o SubSeq(shape, 3, Len(shape))) + 1

\* Sample k of shape [B, F, ...].
Sample(shape, k) ==
    CVTensor(TensorAt(shape, LAMBDA t :
                 Int2R(Pattern(KindOf(k, t[2]), PointNo(t, shape))[1])),
             TensorAt(shape, LAMBDA t :
                 Int2R(Pattern(KindOf(k, t[2]), PointNo(t, shape))[2])))

Shapes(F) ==
    {<<B, F>> : B \in 1..MaxBatch}
        \cup {<<B, F, S>> : B \in 1..MaxBatch, S \in 1..MaxSpatial}

Inputs(F) == {Sample(sh, k) : sh \in Shapes(F), k \in 1..Len(Kinds)}

\* How the optional pairs are passed: both, neither, or one of the two only.
Pairings == {"both", "none", "first", "second"}

First(p, v) == IF p \in {"both", "first"} THEN v ELSE None

Second(p, v) == IF p \in {"both", "second"} THEN v ELSE None

\* Affine parameters: weight [2, 2, F] and bias [2, F].
Weight(F) ==
    TensorAt(<<2, 2, F>>, LAMBDA t : Int2R(IF t[1] = t[2] THEN 1 + t[3] ELSE t[1] - t[2]))

Bias(F) == TensorAt(<<2, F>>, LAMBDA t : Int2R(t[1] - t[2]))

\* Running statistics a caller may hold for F features: the initial zeros and
\* identity (NewStats), or a mean that differs between the parts and the features with a
\* covariance that has a rational square root.
NewStats(F) ==
    [mean |-> TensorAt(<<2, F>>, LAMBDA t : Zero),
     var |-> TensorAt(<<2, 2, F>>, LAMBDA t : IF t[1] = t[2] THEN One ELSE Zero)]

InitStats(F) ==
    {NewStats(F),
     [mean |-> TensorAt(<<2, F>>, LAMBDA t : Int2R(2 * t[1] + t[2] - 3)),
      var |-> TensorAt(<<2, 2, F>>, LAMBDA t : Int2R(IF t[1] = t[2] THEN 5 ELSE 4))]}

Features == running_mean.shape[2]

OutcomeHasSurd(o) ==
    \/ (o.z # None /\ (HasSurd(o.z.real) \/ HasSurd(o.z.imag)))
    \/ (o.running_mean # None /\ HasSurd(o.running_mean))
    \/ (o.running_cov # None /\ HasSurd(o.running_cov))

\* The caller before its first call.
InitCaller ==
    /\ \E F \in 1..MaxFeatures : \E st \in InitStats(F) :
          /\ running_mean = st.mean
          /\ running_var = st.var
    /\ updates = 0
    /\ pc = "idle"
    /\ call = NoCall
    /\ res = Outcome("none", None, None, None)

Init == InitCaller /\ layer = NoLayer

\* A call of cv_batch_norm with the caller's running statistics.
BatchNormCall(x, stats, affine, training, eps) ==
    /\ \E o \in {cv_batch_norm(x, First(stats, running_mean),
                               Second(stats, running_var),
                               First(affine, Weight(Features)),
                               Second(affine, Bias(Features)),
                               training, Momentum, eps)} :
          \E changed \in {stats = "both" /\ (o.running_mean # running_mean
                                             \/ o.running_cov # running_var)} :
             /\ ~OutcomeHasSurd(o)
             /\ changed => updates < MaxUpdates
             /\ call' = [op |-> "cv_batch_norm", x |-> x, stats |-> stats,
                         affine |-> affine, training |-> training, eps |-> eps,
                         running_mean |-> running_mean,
                         running_var |-> running_var]
             /\ res' = o
             /\ running_mean' = IF stats \in {"both", "first"} THEN o.running_mean
                                ELSE running_mean
             /\ running_var' = IF stats \in {"both", "second"} THEN o.running_cov
                               ELSE running_var
             /\ updates' = IF changed THEN updates + 1 ELSE updates
             /\ pc' = "returned"
             /\ UNCHANGED layer

\* The caller takes the result and is ready for the next call.
Return ==
    /\ pc = "returned"
    /\ pc' = "idle"
    /\ call' = NoCall
    /\ res' = Outcome("none", None, None, None)
    /\ UNCHANGED <<running_mean, running_var, updates, layer>>

Next ==
    \/ /\ pc = "idle"
       /\ \E x \in Inputs(Features), stats \in Pairings, affine \in Pairings,
             training \in BOOLEAN, eps \in EpsSet :
             BatchNormCall(x, stats, affine, training, eps)
    \/ Return

Spec == Init /\ [][Next]_vars

---------------------------------------------------------------------------
(* inv_sqrtm2x2 as a function of its arguments                             *)

MaxEntry == 5

Entries == (-MaxEntry)..MaxEntry

\* Two matrices at once, [[a, b], [c, d]] and its transpose, as the four
\* tensors of shape [2] that inv_sqrtm2x2 works on elementwise.
Both(u, v) == [shape |-> <<2>>, data |-> <<Int2R(u), Int2R(v)>>]

\* The square roots of the computation on [[a, b], [c, d]] are rational:
\* delta is negative (its root is nan) or a square, and so is tau + 2s.
Exact(a, b, c, d) ==
    LET delta == a * d - b * c
    IN  \/ delta < 0
        \/ /\ IsSquare(delta)
           /\ \/ a + d + 2 * ISqrt(delta) < 0
              \/ IsSquare(a + d + 2 * ISqrt(delta))

\* The calls with entries in E: four entries in either case, and the
\* symmetric case also with c = None, as the whitening functions call it.
SqrtCalls(E) ==
    {[op |-> "inv_sqrtm2x2", a |-> Both(m[1], m[1]), b |-> Both(m[2], m[3]),
      c |-> Both(m[3], m[2]), d |-> Both(m[4], m[4]), symmetric |-> FALSE] :
        m \in {m \in E \X E \X E \X E :
                  Exact(m[1], m[2], m[3], m[4])}}
    \cup {[op |-> "inv_sqrtm2x2", a |-> Both(m[1], m[1]), b |-> Both(m[2], m[3]),
           c |-> Both(m[3], m[2]), d |-> Both(m[4], m[4]), symmetric |-> TRUE] :
        m \in {m \in E \X E \X E \X E :
                  Exact(m[1], m[2], m[2], m[4]) /\ Exact(m[1], m[3], m[3], m[4])}}
    \cup {[op |-> "inv_sqrtm2x2", a |-> Both(m[1], m[1]), b |-> Both(m[2], m[2]),
           c |-> None, d |-> Both(m[3], m[3]), symmetric |-> TRUE] :
        m \in {m \in E \X E \X E : Exact(m[1], m[2], m[2], m[3])}}

InvSqrtResult(o) == [status |-> "ok", w |-> o[1], x |-> o[2], y |-> o[3], z |-> o[4]]

ResultHasSurd(r) ==
    HasSurd(r.w) \/ HasSurd(r.x) \/ HasSurd(r.z) \/ (r.y # None /\ HasSurd(r.y))

\* A caller that holds no running statistics and no layer.
InitSqrt ==
    /\ pc = "idle"
    /\ call = NoCall
    /\ res = Outcome("none", None, None, None)
    /\ running_mean = None
    /\ running_var = None
    /\ updates = 0
    /\ layer = NoLayer

InvSqrtCall(c) ==
    /\ pc = "idle"
    /\ call' = c
    /\ res' = InvSqrtResult(inv_sqrtm2x2(c.a, c.b, c.c, c.d, c.symmetric))
    /\ pc' = "returned"
    /\ UNCHANGED <<running_mean, running_var, updates, layer>>

NextSqrt == \E c \in SqrtCalls(Entries) : InvSqrtCall(c)

SpecSqrt == InitSqrt /\ [][NextSqrt]_vars

---------------------------------------------------------------------------
(* Calls on inputs of every number of dimensions                           *)

MaxChannels == 2

MaxKernel == 2

MaxStride == 2

MaxPadding == 1

MaxSide == 2

MaxRank == 5

\* The fields of a wFMConv2d and of the _wFMConv2dHelper it holds, which are
\* constructed with the same arguments; fold is set by forward.
Layers ==
    {[in_channels |-> i, out_channels |-> o, kernel_size |-> <<k, k>>,
      stride |-> <<s, s>>, padding |-> <<p, p>>, fold |-> None] :
        i \in 1..MaxChannels, o \in 1..MaxChannels, k \in 1..MaxKernel,
        s \in 1..MaxStride, p \in 0..MaxPadding}

\* The shapes of up to n dimensions.
ShapesUpTo(n) == UNION {[1..r -> 1..MaxSide] : r \in 0..n}

\* An input of any shape.
Plain(shape) ==
    CVTensor(Tensor(shape, LAMBDA i : Int2R(i)), Tensor(shape, LAMBDA i : Int2R(2 * i)))

\* Inputs without a feature axis.
LowInputs == {Plain(sh) : sh \in ShapesUpTo(1)}

\* The normalized shapes tried with x: its last n dimensions, n >= 1, and
\* for a 0-dimensional x the empty one.
NormalizedShapes(x) ==
    IF Dim(x.real) = 0 THEN {<<>>}
    ELSE {SubSeq(x.real.shape, Dim(x.real) - n + 1, Dim(x.real)) : n \in 1..Dim(x.real)}

\* Affine parameters of cv_layer_norm: weight [2, 2, *ns] and bias [2, *ns].
LayerWeight(ns) ==
    TensorAt(<<2, 2>> \o ns, LAMBDA t : Int2R(IF t[1] = t[2] THEN 2 ELSE t[1] - t[2]))

LayerBias(ns) == TensorAt(<<2>> \o ns, LAMBDA t : Int2R(t[1]))

\* The caller with new running statistics and a layer.
InitShape ==
    /\ running_mean = NewStats(MaxFeatures).mean
    /\ running_var = NewStats(MaxFeatures).var
    /\ updates = 0
    /\ pc = "idle"
    /\ call = NoCall
    /\ res = Outcome("none", None, None, None)
    /\ layer \in Layers

\* A call of cv_layer_norm.
LayerNormCall(x, normalized_shape, affine, eps) ==
    \E o \in {cv_layer_norm(x, normalized_shape,
                            First(affine, LayerWeight(normalized_shape)),
                            Second(affine, LayerBias(normalized_shape)), eps)} :
       /\ ~OutcomeHasSurd(o)
       /\ call' = [op |-> "cv_layer_norm", x |-> x,
                   normalized_shape |-> normalized_shape, affine |-> affine,
                   eps |-> eps]
       /\ res' = o
       /\ pc' = "returned"
       /\ UNCHANGED <<running_mean, running_var, updates, layer>>

\* A call of the forward of the helper of the layer on a tensor of shape xs.
HelperForwardCall(xs) ==
    /\ call' = [op |-> "_wFMConv2dHelper.forward", shape |-> xs]
    /\ res' = wFMConv2dHelper_forward(layer, xs)
    /\ pc' = "returned"
    /\ UNCHANGED <<running_mean, running_var, updates, layer>>

\* A call of the forward of the layer on a CVTensor of shape xs.  Past the
\* unpacking of the shape and the assertion, self.fold is made for the input.
Conv2dForwardCall(xs) ==
    \E o \in {wFMConv2d_forward(layer, xs)} :
       /\ call' = [op |-> "wFMConv2d.forward", shape |-> xs, layer |-> layer]
       /\ res' = o
       /\ layer' = IF o.status \in {"ValueError", "AssertionError"} THEN layer
                   ELSE [layer EXCEPT !.fold = [output_size |-> SubSeq(xs, 3, Len(xs))]]
       /\ pc' = "returned"
       /\ UNCHANGED <<running_mean, running_var, updates>>

NextShape ==
    \/ /\ pc = "idle"
       /\ \E x \in LowInputs,
             stats \in Pairings, affine \in Pairings, training \in BOOLEAN,
             eps \in EpsSet :
             BatchNormCall(x, stats, affine, training, eps)
    \/ /\ pc = "idle"
       /\ \E x \in LowInputs \cup {Sample(<<1, Features>>, 3),
                                    Sample(<<MaxBatch, Features, MaxSpatial>>, 3)} :
             \E ns \in NormalizedShapes(x), affine \in Pairings, eps \in EpsSet :
                LayerNormCall(x, ns, affine, eps)
    \/ /\ pc = "idle"
       /\ \E xs \in ShapesUpTo(MaxRank) : HelperForwardCall(xs)
    \/ /\ pc = "idle"
       /\ \E xs \in ShapesUpTo(MaxRank - 1) : Conv2dForwardCall(xs)
    \/ Return

SpecShape == InitShape /\ [][NextShape]_vars

---------------------------------------------------------------------------
(* Properties of cv_batch_norm                                             *)

\* The statistics of feature f of a tensor [B, F, ...], over the batch axis
\* and all spatial axes, from their definitions.
RECURSIVE FeatureSum(_, _, _, _)
FeatureSum(u, v, f, i) ==
    IF i = 0 THEN Zero
    ELSE IF Unflat(i - 1, u.shape)[2] = f
    THEN RAdd(RMul(u.data[i], v.data[i]), FeatureSum(u, v, f, i - 1))
    ELSE FeatureSum(u, v, f, i - 1)

AllOnes(u) == [shape |-> u.shape, data |-> [i \in 1..Numel(u) |-> One]]

\* The mean of u * v over feature f.
FeatureMoment(u, v, f) ==
    RDiv(FeatureSum(u, v, f, Numel(u)), Int2R(Numel(u) \div u.shape[2]))

FeatureMean(u, f) == FeatureMoment(u, AllOnes(u), f)

FeatureCov(u, v, f) ==
    RSub(FeatureMoment(u, v, f), RMul(FeatureMean(u, f), FeatureMean(v, f)))

IsBatchNorm == call.op = "cv_batch_norm"

PairsGiven == call.stats \in {"both", "none"} /\ call.affine \in {"both", "none"}

\* The call used the statistics of the batch.
BatchMode == call.training \/ call.stats = "none"

NumFeatures == call.x.real.shape[2]

Nonsingular(x, f) ==
    RSub(RMul(FeatureCov(x.real, x.real, f), FeatureCov(x.imag, x.imag, f)),
         RMul(FeatureCov(x.real, x.imag, f), FeatureCov(x.real, x.imag, f))) # Zero

IsWhite(z, f) ==
    /\ FeatureMean(z.real, f) = Zero
    /\ FeatureMean(z.imag, f) = Zero
    /\ FeatureCov(z.real, z.real, f) = One
    /\ FeatureCov(z.imag, z.imag, f) = One
    /\ FeatureCov(z.real, z.imag, f) = Zero

\* C3: a call in batch-statistics mode with eps = 0 and no affine parameters
\* that returns gives, for every feature whose batch covariance is
\* nonsingular, an output of zero mean and identity real/imaginary covariance
\* over the batch axis and all spatial axes.
C3_Whitened ==
    (IsBatchNorm /\ res.status = "ok" /\ BatchMode /\ call.eps = Zero
        /\ call.affine = "none")
    => \A f \in 1..NumFeatures : Nonsingular(call.x, f) => IsWhite(res.z, f)

\* A returned batch-mode call on an input with a spatial axis and two
\* features of nonsingular covariance, at least one of them not the identity.
C3_Witness ==
    /\ IsBatchNorm /\ res.status = "ok" /\ BatchMode /\ call.eps = Zero
    /\ call.affine = "none"
    /\ Dim(call.x.real) = 3
    /\ NumFeatures = 2
    /\ \A f \in 1..2 : Nonsingular(call.x, f)
    /\ \E f \in 1..2 : FeatureCov(call.x.real, call.x.imag, f) # Zero

\* The call is a training call that was given both running statistics.
TrainingWithStats ==
    IsBatchNorm /\ call.training /\ call.stats = "both"
        /\ call.affine \in {"both", "none"}

\* (1 - momentum) * old + momentum * new
Ema(old, new) == RAdd(RMul(RSub(One, Momentum), old), RMul(Momentum, new))

\* C4: every training call with running statistics returns and leaves
\* running_mean[c, f] = (1 - momentum) * old[c, f] + momentum * batch_mean[c, f].
C4_RunningMean ==
    TrainingWithStats
    => /\ res.status = "ok"
       /\ running_mean.shape = <<2, NumFeatures>>
       /\ \A f \in 1..NumFeatures :
            /\ At(running_mean, <<1, f>>)
                 = Ema(At(call.running_mean, <<1, f>>), FeatureMean(call.x.real, f))
            /\ At(running_mean, <<2, f>>)
                 = Ema(At(call.running_mean, <<2, f>>), FeatureMean(call.x.imag, f))

\* The covariance of the centered batch of feature f with the ridge on the
\* diagonal, as [[v_rr + eps, v_ir], [v_ir, v_ii + eps]].
RidgeCov(x, f, eps) ==
    <<<<RAdd(FeatureCov(x.real, x.real, f), eps), FeatureCov(x.real, x.imag, f)>>,
      <<FeatureCov(x.real, x.imag, f), RAdd(FeatureCov(x.imag, x.imag, f), eps)>>>>

\* C5: every training call with running statistics leaves
\* running_var[i, j, f] = (1 - momentum) * old[i, j, f] + momentum * C[i, j],
\* C the covariance of the centered batch with eps on its diagonal.
C5_RunningCov ==
    TrainingWithStats
    => \A f \in 1..NumFeatures : \A i \in 1..2 : \A j \in 1..2 :
          At(running_var, <<i, j, f>>)
             = Ema(At(call.running_var, <<i, j, f>>),
                   RidgeCov(call.x, f, call.eps)[i][j])

\* C6: a call with training=False and running statistics leaves running_mean
\* and running_var as they were, and a call that changes either is a
\* training call.
C6_EvalKeepsStats ==
    IsBatchNorm
    => /\ (~call.training /\ call.stats = "both")
            => (running_mean = call.running_mean /\ running_var = call.running_var)
       /\ (running_mean # call.running_mean \/ running_var # call.running_var)
            => call.training

\* An evaluation call with running statistics that returned.
C6_Witness ==
    /\ IsBatchNorm /\ ~call.training /\ call.stats = "both"
    /\ res.status = "ok"
    /\ running_mean = call.running_mean /\ running_var = call.running_var

\* The inverse square root of the covariance [[a, b], [b, d]], from the
\* formulas of the documentation of inv_sqrtm2x2.
InvSqrtOf(a, b, d) ==
    LET s == RSqrt(RSub(RMul(a, d), RMul(b, b)))
        t == RSqrt(RAdd(RAdd(a, d), RMul(Int2R(2), s)))
        k == RRecip(RMul(s, t))
    IN  <<<<RMul(k, RAdd(d, s)), RNeg(RMul(k, b))>>,
          <<RNeg(RMul(k, b)), RMul(k, RAdd(a, s))>>>>

\* What evaluation mode is to return at index t: the input less the running
\* mean of its feature, whitened with the running covariance of its feature.
EvalExpected(t) ==
    LET f == t[2]
        xr == RSub(At(call.x.real, t), At(call.running_mean, <<1, f>>))
        xi == RSub(At(call.x.imag, t), At(call.running_mean, <<2, f>>))
        w == InvSqrtOf(At(call.running_var, <<1, 1, f>>),
                       At(call.running_var, <<1, 2, f>>),
                       At(call.running_var, <<2, 2, f>>))
    IN  <<RAdd(RMul(w[1][1], xr), RMul(w[1][2], xi)),
          RAdd(RMul(w[2][1], xr), RMul(w[2][2], xi))>>

\* C7: a call with training=False and running statistics returns, for every
\* input shape, the input centered with running_mean[:, f] and whitened with
\* running_var[:, :, f].
C7_EvalUsesRunning ==
    (IsBatchNorm /\ ~call.training /\ call.stats = "both" /\ call.affine = "none")
    => /\ res.status = "ok"
       /\ res.z.real.shape = call.x.real.shape
       /\ \A i \in 1..Numel(call.x.real) :
            LET t == Unflat(i - 1, call.x.real.shape)
            IN  <<res.z.real.data[i], res.z.imag.data[i]>> = EvalExpected(t)

\* C8: a call with training=False and no running statistics does not return
\* a normalized result.
C8_EvalNeedsStats ==
    (IsBatchNorm /\ ~call.training /\ call.stats = "none"
        /\ call.affine \in {"both", "none"})
    => res.status # "ok"

\* C9: a call that was given one of running_mean/running_var or one of
\* weight/bias without the other ends with an assertion failure, returns
\* nothing and leaves the running statistics as they were; a call given whole
\* pairs passes both assertions.
C9_PairAssertions ==
    IsBatchNorm
    => /\ ~PairsGiven
            => /\ res.status = "AssertionError"
               /\ res.z = None
               /\ running_mean = call.running_mean
               /\ running_var = call.running_var
       /\ (PairsGiven /\ Dim(call.x.real) >= 2) => res.status # "AssertionError"

\* A training call given running_mean without running_var, aborted.
C9_Witness ==
    /\ IsBatchNorm /\ call.training /\ call.stats = "first"
    /\ call.affine = "both"
    /\ res.status = "AssertionError"

---------------------------------------------------------------------------
(* Properties of inv_sqrtm2x2                                              *)

SqrtReturned == pc = "returned" /\ call.op = "inv_sqrtm2x2"

\* 2 x 2 matrices of numbers, as <<<<m11, m12>>, <<m21, m22>>>>.
Mat2Mul(P, Q) ==
    <<<<RAdd(RMul(P[1][1], Q[1][1]), RMul(P[1][2], Q[2][1])),
        RAdd(RMul(P[1][1], Q[1][2]), RMul(P[1][2], Q[2][2]))>>,
      <<RAdd(RMul(P[2][1], Q[1][1]), RMul(P[2][2], Q[2][1])),
        RAdd(RMul(P[2][1], Q[1][2]), RMul(P[2][2], Q[2][2]))>>>>

Identity2 == <<<<One, Zero>>, <<Zero, One>>>>

\* The matrices A and B of element i of the last call and its result.
ArgMatrix(i) ==
    <<<<call.a.data[i], call.b.data[i]>>, <<call.c.data[i], call.d.data[i]>>>>

ResMatrix(i) ==
    <<<<res.w.data[i], res.x.data[i]>>, <<res.y.data[i], res.z.data[i]>>>>

Det2(A) == RSub(RMul(A[1][1], A[2][2]), RMul(A[1][2], A[2][1]))

\* delta > 0 and tau + 2 sqrt(delta) > 0
HasRoot(A) ==
    /\ RLess(Zero, Det2(A))
    /\ RLess(Zero, RAdd(RAdd(A[1][1], A[2][2]), RMul(Int2R(2), RSqrt(Det2(A)))))

\* ((d + s) / (s t), -b / (s t), -c / (s t), (a + s) / (s t))
ClosedForm(A) ==
    LET s == RSqrt(Det2(A))
        t == RSqrt(RAdd(RAdd(A[1][1], A[2][2]), RMul(Int2R(2), s)))
        st == RMul(s, t)
    IN  <<<<RDiv(RAdd(A[2][2], s), st), RDiv(RNeg(A[1][2]), st)>>,
          <<RDiv(RNeg(A[2][1]), st), RDiv(RAdd(A[1][1], s), st)>>>>

\* C1: with symmetric=False, for every matrix A = [[a, b], [c, d]] with
\* delta = ad - bc > 0 and a + d + 2 sqrt(delta) > 0 the result is
\* ((d+s)/(st), -b/(st), -c/(st), (a+s)/(st)), and B = [[w, x], [y, z]]
\* satisfies B * B * A = I.
C1_InverseSqrt ==
    (SqrtReturned /\ ~call.symmetric)
    => \A i \in 1..2 :
          HasRoot(ArgMatrix(i))
          => /\ ResMatrix(i) = ClosedForm(ArgMatrix(i))
             /\ Mat2Mul(Mat2Mul(ResMatrix(i), ResMatrix(i)), ArgMatrix(i)) = Identity2

\* A general call returned on a matrix with roots and b, c, 0 all different.
C1_Witness ==
    /\ SqrtReturned /\ ~call.symmetric
    /\ HasRoot(ArgMatrix(1))
    /\ call.b.data[1] # call.c.data[1]
    /\ call.b.data[1] # Zero
    /\ call.c.data[1] # Zero
    /\ call.b.data[1] # RNeg(call.c.data[1])

\* C2: on a symmetric input (b == c, or c = None) the symmetric case returns
\* the w, x and z of the general case on [[a, b], [b, d]] and y = None, where
\* the general case returns y equal to x; whatever c is, the result is the
\* one for c = None.
C2_SymmetricCase ==
    (SqrtReturned /\ call.symmetric)
    => /\ (call.c = None \/ call.c = call.b)
            => LET g == inv_sqrtm2x2(call.a, call.b, call.b, call.d, FALSE)
               IN  /\ res.status = "ok"
                   /\ res.w = g[1]
                   /\ res.x = g[2]
                   /\ res.z = g[4]
                   /\ res.y = None
                   /\ g[3] = g[2]
       /\ res = InvSqrtResult(inv_sqrtm2x2(call.a, call.b, None, call.d, TRUE))

\* A symmetric call with c = None returned finite numbers for a matrix that
\* is not diagonal.
C2_Witness ==
    /\ SqrtReturned /\ call.symmetric /\ call.c = None
    /\ call.b.data[1] # Zero
    /\ AllFinite(res.w) /\ AllFinite(res.x) /\ AllFinite(res.z)
    /\ res.x.data[1] # Zero

---------------------------------------------------------------------------
(* Properties of the shape assertions                                      *)

Aborted == res.status = "AssertionError" /\ res.z = None

\* C10: cv_batch_norm and cv_layer_norm end with an assertion failure on an
\* input of fewer than 2 dimensions, in cv_batch_norm with running_mean and
\* running_var as they were; _wFMConv2dHelper.forward ends with an assertion
\* failure when the polar axis is not of size 2 or the channel axis is not
\* in_channels, and wFMConv2d.forward when the channel axis is not
\* in_channels; with the axes as asserted no assertion fails in the two
\* forward functions.
C10_ShapeAssertions ==
    /\ (call.op = "cv_batch_norm" /\ Dim(call.x.real) < 2)
          => /\ Aborted
             /\ running_mean = call.running_mean
             /\ running_var = call.running_var
    /\ (call.op = "cv_layer_norm" /\ Dim(call.x.real) < 2) => Aborted
    /\ (call.op = "_wFMConv2dHelper.forward" /\ Len(call.shape) >= 3)
          => (Aborted <=> (call.shape[2] # 2 \/ call.shape[3] # layer.in_channels))
    /\ (call.op = "wFMConv2d.forward" /\ Len(call.shape) >= 2)
          => /\ Aborted <=> call.shape[2] # call.layer.in_channels
             /\ Aborted => layer = call.layer

\* A training call of cv_batch_norm with both running statistics and both
\* affine parameters on a 1-dimensional input, aborted.
C10_Witness ==
    /\ call.op = "cv_batch_norm" /\ Dim(call.x.real) = 1
    /\ call.training /\ call.stats = "both" /\ call.affine = "both"
    /\ Aborted

---------------------------------------------------------------------------
(* Properties of the affine transformation of cv_batch_norm                *)

\* What the call returns when it is given no affine parameter: the whitened z.
Whitened ==
    cv_batch_norm(call.x, First(call.stats, call.running_mean),
                  Second(call.stats, call.running_var), None, None,
                  call.training, Momentum, call.eps).z

\* weight[a, b, f] * z_r + weight[a, c, f] * z_i + bias[a, f], on scalars.
AffineRow(a, f, zr, zi) ==
    RAdd(RAdd(RMul(At(Weight(NumFeatures), <<a, 1, f>>), zr),
              RMul(At(Weight(NumFeatures), <<a, 2, f>>), zi)),
         At(Bias(NumFeatures), <<a, f>>))

\* C11: a call that returns with weight [2, 2, F] and bias [2, F] gives, at
\* every element of feature f, weight[0,0,f] z_r + weight[0,1,f] z_i +
\* bias[0,f] as the real part and weight[1,0,f] z_r + weight[1,1,f] z_i +
\* bias[1,f] as the imaginary part, z the whitened value; with neither it
\* returns the whitened value itself.
C11_AffineOutput ==
    (IsBatchNorm /\ res.status = "ok" /\ call.affine \in {"both", "none"})
    => /\ res.z.real.shape = call.x.real.shape
       /\ res.z.imag.shape = call.x.real.shape
       /\ call.affine = "none" => res.z = Whitened
       /\ call.affine = "both" =>
            \A i \in 1..Numel(call.x.real) :
               LET f == Unflat(i - 1, call.x.real.shape)[2]
                   zr == Whitened.real.data[i]
                   zi == Whitened.imag.data[i]
               IN  /\ res.z.real.data[i] = AffineRow(1, f, zr, zi)
                   /\ res.z.imag.data[i] = AffineRow(2, f, zr, zi)

\* A returned call with both affine parameters on an input with a spatial
\* axis and two features, the whitened value with a nonzero real and a
\* nonzero imaginary part at some element.
C11_Witness ==
    /\ IsBatchNorm /\ res.status = "ok" /\ call.affine = "both"
    /\ Dim(call.x.real) = 3
    /\ NumFeatures = 2
    /\ \E i \in 1..Numel(call.x.real) :
          /\ Whitened.real.data[i] # Zero
          /\ Whitened.imag.data[i] # Zero
          /\ res.z.real.data[i] # Whitened.real.data[i]

---------------------------------------------------------------------------
(* nn/modules/linear.py                                                    *)

\* torch.complex(re, im): a complex tensor by its two parts.
TorchComplex(re, im) == [real |-> re, imag |-> im]

\* The sum over k = 1..n of x[..., k] * weight[o, k], t = <<..., o>> an index
\* of the result.
RECURSIVE Dot(_, _, _, _)
Dot(x, weight, t, n) ==
    IF n = 0 THEN Zero
    ELSE RAdd(Dot(x, weight, t, n - 1),
              RMul(At(x, SubSeq(t, 1, Len(t) - 1) \o <<n>>),
                   At(weight, <<t[Len(t)], n>>)))

\* F.linear, and nn.Linear.forward: input [..., in] times the transpose of
\* weight [out, in], plus bias [out] when there is one.
F_linear(input, weight, bias) ==
    CHOOSE y \in
        {TensorAt(SubSeq(x.shape, 1, Dim(x) - 1) \o <<w.shape[1]>>,
                  LAMBDA t : IF bias = None THEN Dot(x, w, t, w.shape[2])
                             ELSE RAdd(Dot(x, w, t, w.shape[2]),
                                       bias.data[t[Len(t)]]))
         : x \in {input}, w \in {weight}} : TRUE

\* A Linear layer: its two real layers, each a weight [out, in] and a bias
\* [out] or None.
LinearLayer(w_r, b_r, w_i, b_i) ==
    [kind |-> "Linear",
     linear_r |-> [weight |-> w_r, bias |-> b_r],
     linear_i |-> [weight |-> w_i, bias |-> b_i]]

\* Lines 59-61: the weight property.
Linear_weight(self) == TorchComplex(self.linear_r.weight, self.linear_i.weight)

\* Lines 63-68: the bias property.
Linear_bias(self) ==
    IF self.linear_r.bias = None THEN None
    ELSE TorchComplex(self.linear_r.bias, self.linear_i.bias)

\* Linear.forward returning t3 - t1 as the imaginary part.
LinearForwardKeepsT2(self, input) ==
    IF Dim(input.real) = 0
       \/ input.real.shape[Dim(input.real)] # self.linear_r.weight.shape[2]
    THEN Outcome("RuntimeError", None, None, None)
    ELSE CHOOSE o \in
           {Outcome("ok", TorchComplex(TSub(t1, t2), TSub(t3, t1)), None, None)
            : t1 \in {F_linear(input.real, self.linear_r.weight,
                               self.linear_r.bias)},
              t2 \in {F_linear(input.imag, self.linear_i.weight,
                               self.linear_i.bias)},
              t3 \in {F_linear(TAdd(input.real, input.imag),
                               TAdd(self.linear_r.weight, self.linear_i.weight),
                               IF self.linear_r.bias = None THEN None
                               ELSE TAdd(self.linear_r.bias,
                                         self.linear_i.bias))}} : TRUE

\* Lines 70-86: Linear.forward.  A last axis that is not in_features makes
\* the first matrix product raise.
Linear_forward(self, input) ==
    IF Dim(input.real) = 0
       \/ input.real.shape[Dim(input.real)] # self.linear_r.weight.shape[2]
    THEN Outcome("RuntimeError", None, None, None)
    ELSE CHOOSE o \in
           {Outcome("ok", TorchComplex(TSub(t1, t2), TSub(TSub(t3, t2), t1)),
                    None, None)
            : t1 \in {F_linear(input.real, self.linear_r.weight,
                               self.linear_r.bias)},
              t2 \in {F_linear(input.imag, self.linear_i.weight,
                               self.linear_i.bias)},
              t3 \in {F_linear(TAdd(input.real, input.imag),
                               TAdd(self.linear_r.weight, self.linear_i.weight),
                               IF self.linear_r.bias = None THEN None
                               ELSE TAdd(self.linear_r.bias,
                                         self.linear_i.bias))}} : TRUE

---------------------------------------------------------------------------
(* The caller of a Linear layer                                            *)

MaxInFeatures == 2

MaxOutFeatures == 2

MaxRows == 2

\* Weights [out, in] with entries in -1..2, biases [out] that are zero or
\* differ between the outputs.
LinearWeights(out, in) ==
    {TensorAt(<<out, in>>, LAMBDA t : Int2R(((k * t[1] + t[2]) % 4) - 1))
     : k \in 1..2}

LinearBiases(out) ==
    {TensorAt(<<out>>, LAMBDA t : Int2R(c * t[1])) : c \in -1..1}

\* The layers Linear(in_features, out_features, bias) constructs: without
\* bias (the default) and with.
LinearLayers ==
    UNION {{LinearLayer(w_r, None, w_i, None)
            : w_r \in LinearWeights(sh[1], sh[2]),
              w_i \in LinearWeights(sh[1], sh[2])}
           \cup {LinearLayer(w_r, b_r, w_i, b_i)
                 : w_r \in LinearWeights(sh[1], sh[2]),
                   w_i \in LinearWeights(sh[1], sh[2]),
                   b_r \in LinearBiases(sh[1]), b_i \in LinearBiases(sh[1])}
           : sh \in (1..MaxOutFeatures) \X (1..MaxInFeatures)}

\* Complex inputs [in] and [rows, in] with parts in -2..2.
LinearSample(shape, k) ==
    TorchComplex(Tensor(shape, LAMBDA i : Int2R(((k * i) % 5) - 2)),
                 Tensor(shape, LAMBDA i : Int2R((((k + 1) * i + 1) % 5) - 2)))

LinearInputs ==
    {LinearSample(sh, k)
     : sh \in {<<n>> : n \in 1..MaxInFeatures}
              \cup {<<r, n>> : r \in 1..MaxRows, n \in 1..MaxInFeatures},
       k \in 1..3}

\* A caller that holds a module and has made no call: the state the three
\* normalisation variables are in is of no account to it.
InitModule ==
    /\ running_mean = None
    /\ running_var = None
    /\ updates = 0
    /\ pc = "idle"
    /\ call = NoCall
    /\ res = Outcome("none", None, None, None)

InitLinear == InitModule /\ layer \in LinearLayers

\* A call of the layer's forward.
LinearForwardCall(input) ==
    /\ \E o \in {Linear_forward(layer, input)} :
          /\ call' = [op |-> "Linear.forward", input |-> input]
          /\ res' = o
    /\ pc' = "returned"
    /\ UNCHANGED <<running_mean, running_var, updates, layer>>

NextLinear ==
    \/ /\ pc = "idle"
       /\ \E input \in LinearInputs : LinearForwardCall(input)
    \/ Return

SpecLinear == InitLinear /\ [][NextLinear]_vars

---------------------------------------------------------------------------
(* Properties of Linear                                                    *)

\* The sum over k = 1..n of the complex products w[o, k] * z[..., k], as a
\* pair <<real part, imaginary part>>; t = <<..., o>>.
RECURSIVE ComplexDot(_, _, _, _)
ComplexDot(w, z, t, n) ==
    IF n = 0 THEN <<Zero, Zero>>
    ELSE LET w_r == At(w.real, <<t[Len(t)], n>>)
             w_i == At(w.imag, <<t[Len(t)], n>>)
             z_r == At(z.real, SubSeq(t, 1, Len(t) - 1) \o <<n>>)
             z_i == At(z.imag, SubSeq(t, 1, Len(t) - 1) \o <<n>>)
             rest == ComplexDot(w, z, t, n - 1)
         IN  <<RAdd(rest[1], RSub(RMul(w_r, z_r), RMul(w_i, z_i))),
               RAdd(rest[2], RAdd(RMul(w_r, z_i), RMul(w_i, z_r)))>>

IsLinearForward == call.op = "Linear.forward"

InFeatures == layer.linear_r.weight.shape[2]

OutFeatures == layer.linear_r.weight.shape[1]

\* The input has in_features as its last axis.
LinearInputFits ==
    call.input.real.shape[Dim(call.input.real)] = InFeatures

\* The shape of the result: the input's with out_features as the last axis.
LinearOutputShape ==
    SubSeq(call.input.real.shape, 1, Dim(call.input.real) - 1)
        \o <<OutFeatures>>

\* C12: forward of a layer without bias returns, for every input with
\* in_features as its last axis, the complex product of the complex weight
\* with the input: (W_r z_r - W_i z_i) + j (W_r z_i + W_i z_r).
C12_GaussExact ==
    (IsLinearForward /\ layer.linear_r.bias = None /\ LinearInputFits)
    => /\ res.status = "ok"
       /\ res.z.real.shape = LinearOutputShape
       /\ res.z.imag.shape = LinearOutputShape
       /\ \A i \in 1..Prod(LinearOutputShape) :
             <<res.z.real.data[i], res.z.imag.data[i]>>
                = ComplexDot(Linear_weight(layer), call.input,
                             Unflat(i - 1, LinearOutputShape), InFeatures)

\* A returned call of a layer without bias, two inputs and two outputs wide,
\* on an input of two rows, with t2 not zero and a result whose parts differ.
C12_Witness ==
    /\ IsLinearForward /\ layer.linear_r.bias = None /\ res.status = "ok"
    /\ InFeatures = 2 /\ OutFeatures = 2
    /\ Dim(call.input.real) = 2 /\ call.input.real.shape[1] = 2
    /\ \E i \in 1..Numel(res.z.real) :
          /\ F_linear(call.input.imag, layer.linear_i.weight, None).data[i] # Zero
          /\ res.z.real.data[i] # res.z.imag.data[i]

\* C13: forward of a layer with bias returns weight * z + bias, weight and
\* bias the complex values of the layer's two properties.
C13_LinearWithBias ==
    (IsLinearForward /\ layer.linear_r.bias # None /\ LinearInputFits)
    => /\ res.status = "ok"
       /\ res.z.real.shape = LinearOutputShape
       /\ \A i \in 1..Prod(LinearOutputShape) :
             LET t == Unflat(i - 1, LinearOutputShape)
                 wz == ComplexDot(Linear_weight(layer), call.input, t, InFeatures)
             IN  /\ res.z.real.data[i]
                       = RAdd(wz[1], Linear_bias(layer).real.data[t[Len(t)]])
                 /\ res.z.imag.data[i]
                       = RAdd(wz[2], Linear_bias(layer).imag.data[t[Len(t)]])

---------------------------------------------------------------------------
(* nn/modules/conv.py, for one spatial axis: Conv1d and ConvTranspose1d     *)

\* F.pad(x, (p, p), mode) of x [N, C, L]; "zeros" is the padding F.conv1d
\* itself applies.
Pad1d(x, p, mode) ==
    CHOOSE y \in
        {TensorAt(<<a.shape[1], a.shape[2], a.shape[3] + 2 * p>>,
                  LAMBDA t :
                     LET L == a.shape[3]
                         q == t[3] - p
                     IN  IF q >= 1 /\ q <= L THEN At(a, <<t[1], t[2], q>>)
                         ELSE CASE mode = "zeros" -> Zero
                                [] mode = "circular" ->
                                     At(a, <<t[1], t[2], ((q - 1) % L) + 1>>)
                                [] mode = "replicate" ->
                                     At(a, <<t[1], t[2], IF q < 1 THEN 1 ELSE L>>)
                                [] mode = "reflect" ->
                                     At(a, <<t[1], t[2],
                                             IF q < 1 THEN 2 - q ELSE 2 * L - q>>))
         : a \in {x}} : TRUE

\* The sum of the first m products of element t = <<n, co, l>> of a
\* convolution of the padded input xp [N, C_in, L] with weight
\* [C_out, C_in / groups, K]: product m is channel c, tap k, m = (c-1) K + k.
RECURSIVE ConvSum(_, _, _, _, _, _)
ConvSum(xp, w, t, stride, dilation, m) ==
    IF m = 0 THEN Zero
    ELSE LET c == ((m - 1) \div w.shape[3]) + 1
             k == ((m - 1) % w.shape[3]) + 1
             groups == xp.shape[2] \div w.shape[2]
             g == (t[2] - 1) \div (w.shape[1] \div groups)
         IN  RAdd(ConvSum(xp, w, t, stride, dilation, m - 1),
                  RMul(At(xp, <<t[1], g * w.shape[2] + c,
                                (t[3] - 1) * stride + (k - 1) * dilation + 1>>),
                       At(w, <<t[2], c, k>>)))

\* The length of the output of a convolution of a padded input of length L.
ConvLength(L, K, stride, dilation) == ((L - dilation * (K - 1) - 1) \div stride) + 1

\* F.conv1d(input, weight, bias, stride, padding, dilation, groups); the
\* number of groups is in_channels / weight.shape[1].
F_conv1d(input, weight, bias, stride, padding, dilation) ==
    CHOOSE y \in
        {TensorAt(<<xp.shape[1], w.shape[1],
                    ConvLength(xp.shape[3], w.shape[3], stride, dilation)>>,
                  LAMBDA t :
                     IF bias = None
                     THEN ConvSum(xp, w, t, stride, dilation,
                                  w.shape[2] * w.shape[3])
                     ELSE RAdd(ConvSum(xp, w, t, stride, dilation,
                                       w.shape[2] * w.shape[3]),
                               bias.data[t[2]]))
         : xp \in {Pad1d(input, padding, "zeros")}, w \in {weight}} : TRUE

\* nn.Conv1d.forward of the real layer m = self.conv_r or self.conv_i, which
\* lines 117-142 construct with the hyper-parameters of self: a padding_mode
\* other than zeros pads the input first.
nn_Conv1d(self, m, input) ==
    IF self.padding_mode # "zeros"
    THEN F_conv1d(Pad1d(input, self.padding, self.padding_mode), m.weight,
                  m.bias, self.stride, 0, self.dilation)
    ELSE F_conv1d(input, m.weight, m.bias, self.stride, self.padding,
                  self.dilation)

\* The input is one nn.Conv1d accepts: [N, in_channels, L], L with its
\* padding not shorter than the dilated kernel, and no longer a padding than
\* the mode can take from the input.
ConvInputFits(self, input) ==
    /\ Dim(input) = 3
    /\ input.shape[2] = self.in_channels
    /\ input.shape[3] + 2 * self.padding
          >= self.dilation * (self.kernel_size - 1) + 1
    /\ self.padding_mode = "circular" => self.padding <= input.shape[3]
    /\ self.padding_mode = "reflect" => self.padding < input.shape[3]

\* torch.complex(re, im) of two broadcastable tensors.
torch_complex(re, im) ==
    TorchComplex(TBin(LAMBDA a, b : a, re, im), TBin(LAMBDA a, b : b, re, im))

\* x - y, or None when the shapes cannot be broadcast (a RuntimeError).
TrySub(x, y) ==
    IF x = None \/ y = None THEN None
    ELSE IF Broadcastable(x.shape, y.shape) THEN TSub(x, y)
    ELSE None

\* Lines 161-179: _Conv.forward, ConvFunc = F.conv1d.  The third convolution
\* is called with stride, padding and groups: its dilation is the default 1
\* and its padding is with zeros.  (The line that prints the memory
\* allocated changes nothing that is returned.)
Conv_forward(self, input) ==
    IF ~ConvInputFits(self, input.real)
    THEN Outcome("RuntimeError", None, None, None)
    ELSE CHOOSE o \in
           {IF TrySub(TrySub(t3, t2), t1) = None
            THEN Outcome("RuntimeError", None, None, None)
            ELSE Outcome("ok",
                         torch_complex(TSub(t1, t2), TSub(TSub(t3, t2), t1)),
                         None, None)
            : t1 \in {nn_Conv1d(self, self.conv_r, input.real)},
              t2 \in {nn_Conv1d(self, self.conv_i, input.imag)},
              t3 \in {F_conv1d(TAdd(input.real, input.imag),
                               TAdd(self.conv_r.weight, self.conv_i.weight),
                               IF self.conv_r.bias = None THEN None
                               ELSE TAdd(self.conv_r.bias, self.conv_i.bias),
                               self.stride, self.padding, 1)}}
           : TRUE

\* The sum of the first m products of element t = <<n, co, l>> of a
\* transposed convolution of x [N, C_in, L] with weight
\* [C_in, C_out / groups, K]: product m is channel c, tap k, and reads the
\* input element i with (i - 1) stride + (k - 1) dilation - padding = l - 1,
\* if there is one.
RECURSIVE ConvTransposeSum(_, _, _, _, _)
ConvTransposeSum(x, w, t, cfg, m) ==
    IF m = 0 THEN Zero
    ELSE LET in_g == w.shape[1] \div cfg.groups
             c == ((m - 1) \div w.shape[3]) + 1
             k == ((m - 1) % w.shape[3]) + 1
             ci == ((t[2] - 1) \div w.shape[2]) * in_g + c
             num == (t[3] - 1) + cfg.padding - (k - 1) * cfg.dilation
         IN  IF num >= 0 /\ num % cfg.stride = 0
                /\ num \div cfg.stride < x.shape[3]
             THEN RAdd(ConvTransposeSum(x, w, t, cfg, m - 1),
                       RMul(At(x, <<t[1], ci, (num \div cfg.stride) + 1>>),
                            At(w, <<ci, ((t[2] - 1) % w.shape[2]) + 1, k>>)))
             ELSE ConvTransposeSum(x, w, t, cfg, m - 1)

\* The length of the output of a transposed convolution.
ConvTransposeLength(L, K, cfg) ==
    (L - 1) * cfg.stride - 2 * cfg.padding + cfg.dilation * (K - 1)
        + cfg.output_padding + 1

\* F.conv_transpose1d(input, weight, bias, stride, padding, output_padding,
\* groups, dilation), the last five as the fields of cfg.
F_conv_transpose1d(input, weight, bias, cfg) ==
    CHOOSE y \in
        {TensorAt(<<x.shape[1], w.shape[2] * cfg.groups,
                    ConvTransposeLength(x.shape[3], w.shape[3], cfg)>>,
                  LAMBDA t :
                     IF bias = None
                     THEN ConvTransposeSum(x, w, t, cfg,
                                           (w.shape[1] \div cfg.groups) * w.shape[3])
                     ELSE RAdd(ConvTransposeSum(x, w, t, cfg,
                                                (w.shape[1] \div cfg.groups)
                                                    * w.shape[3]),
                               bias.data[t[2]]))
         : x \in {input}, w \in {weight}} : TRUE

\* The hyper-parameters nn.ConvTranspose1d.forward passes: those of the
\* layer, which lines 422-449 construct with the hyper-parameters of self.
ConvTransposeConfig(self) ==
    [stride |-> self.stride, padding |-> self.padding,
     output_padding |-> self.output_padding, groups |-> self.groups,
     dilation |-> self.dilation]

\* The hyper-parameters of the call of lines 477-484: stride, padding and
\* groups are given, output_padding and dilation are the defaults 0 and 1.
ConvFuncConfig(self) ==
    [stride |-> self.stride, padding |-> self.padding, output_padding |-> 0,
     groups |-> self.groups, dilation |-> 1]

\* The input is one nn.ConvTranspose1d accepts: [N, in_channels, L] with
\* an output of at least one element.
ConvTransposeInputFits(self, input) ==
    /\ Dim(input) = 3
    /\ input.shape[2] = self.in_channels
    /\ ConvTransposeLength(input.shape[3], self.kernel_size,
                           ConvTransposeConfig(self)) >= 1

\* Lines 466-485: _ConvTranspose.forward, ConvFunc = F.conv_transpose1d.
ConvTranspose_forward(self, input) ==
    IF ~ConvTransposeInputFits(self, input.real)
       \/ ConvTransposeLength(input.real.shape[3], self.kernel_size,
                              ConvFuncConfig(self)) < 1
    THEN Outcome("RuntimeError", None, None, None)
    ELSE CHOOSE o \in
           {IF TrySub(TrySub(t3, t2), t1) = None
            THEN Outcome("RuntimeError", None, None, None)
            ELSE Outcome("ok",
                         torch_complex(TSub(t1, t2), TSub(TSub(t3, t2), t1)),
                         None, None)
            : t1 \in {F_conv_transpose1d(input.real, self.convt_r.weight,
                                         self.convt_r.bias,
                                         ConvTransposeConfig(self))},
              t2 \in {F_conv_transpose1d(input.imag, self.convt_i.weight,
                                         self.convt_i.bias,
                                         ConvTransposeConfig(self))},
              t3 \in {F_conv_transpose1d(
                          TAdd(input.real, input.imag),
                          TAdd(self.convt_r.weight, self.convt_i.weight),
                          IF self.convt_r.bias = None THEN None
                          ELSE TAdd(self.convt_r.bias, self.convt_i.bias),
                          ConvFuncConfig(self))}}
           : TRUE

---------------------------------------------------------------------------
(* The caller of a Conv1d or ConvTranspose1d layer                         *)

MaxConvChannels == 2

MaxConvKernel == 2

MaxConvStride == 2

MaxConvPadding == 1

MaxConvDilation == 2

MaxLength == 3

\* Weights with entries in -1..2; biases b_r[co] = co and b_i[co] = 1 - 2 co,
\* whose sum is zero for the first output channel only.
ConvWeight(shape, k) ==
    TensorAt(shape, LAMBDA t : Int2R(((k * t[1] + 2 * t[2] + 3 * t[3]) % 4) - 1))

ConvBias(out, k) ==
    TensorAt(<<out>>, LAMBDA t : Int2R(IF k = 1 THEN t[1] ELSE 1 - 2 * t[1]))

ConvPart(shape, k, bias) ==
    [weight |-> ConvWeight(shape, k),
     bias |-> IF bias THEN ConvBias(shape[1], k) ELSE None]

ConvTransposePart(shape, out, k, bias) ==
    [weight |-> ConvWeight(shape, k),
     bias |-> IF bias THEN ConvBias(out, k) ELSE None]

\* The fields lines 93-100 and 144-149 give a Conv1d layer.
Conv1dLayer(in, out, K, stride, padding, dilation, groups, bias, mode) ==
    [kind |-> "Conv1d", in_channels |-> in, out_channels |-> out,
     kernel_size |-> K, stride |-> stride, padding |-> padding,
     dilation |-> dilation, groups |-> groups, padding_mode |-> mode,
     conv_r |-> ConvPart(<<out, in \div groups, K>>, 1, bias),
     conv_i |-> ConvPart(<<out, in \div groups, K>>, 2, bias)]

\* The fields lines 396-456 give a ConvTranspose1d layer.
ConvTranspose1dLayer(in, out, K, stride, padding, output_padding, groups, bias, dilation) ==
    [kind |-> "ConvTranspose1d", in_channels |-> in, out_channels |-> out,
     kernel_size |-> K, stride |-> stride, padding |-> padding,
     dilation |-> dilation, output_padding |-> output_padding,
     groups |-> groups,
     convt_r |-> ConvTransposePart(<<in, out \div groups, K>>, out, 1, bias),
     convt_i |-> ConvTransposePart(<<in, out \div groups, K>>, out, 2, bias)]

\* in_channels, out_channels and a number of groups that divides both.
ConvChannels ==
    {c \in (1..MaxConvChannels) \X (1..MaxConvChannels) \X (1..MaxConvChannels)
     : c[1] % c[3] = 0 /\ c[2] % c[3] = 0}

\* The padding modes of nn.Conv1d that are tried.
PaddingModes == {"zeros", "circular", "replicate"}

\* The layers the constructors accept; a transposed convolution pads with
\* zeros only, and its output_padding is less than its stride or dilation.
ConvLayers ==
    {Conv1dLayer(c[1], c[2], K, s, p, d, c[3], b, mode)
     : c \in ConvChannels, K \in 1..MaxConvKernel, s \in 1..MaxConvStride,
       p \in 0..MaxConvPadding, d \in 1..MaxConvDilation, b \in BOOLEAN,
       mode \in PaddingModes}

ConvTransposeLayers ==
    {ConvTranspose1dLayer(c[1], c[2], K, h[1], p, h[3], c[3], b, h[2])
     : c \in ConvChannels, K \in 1..MaxConvKernel, p \in 0..MaxConvPadding,
       b \in BOOLEAN,
       h \in {h \in (1..MaxConvStride) \X (1..MaxConvDilation) \X (0..1)
              : h[3] < h[1] \/ h[3] < h[2]}}

\* Complex inputs [1, C, L] with parts in -1..2.
ConvSample(C, L, k) ==
    TorchComplex(TensorAt(<<1, C, L>>,
                          LAMBDA t : Int2R(((k * t[2] + t[3]) % 3) - 1)),
                 TensorAt(<<1, C, L>>,
                          LAMBDA t : Int2R(((t[2] + k * t[3] + 1) % 4) - 1)))

ConvInputs(C) == {ConvSample(C, L, k) : L \in 1..MaxLength, k \in 1..2}

InitConv == InitModule /\ layer \in ConvLayers \cup ConvTransposeLayers

\* A call of the forward of a Conv1d layer.
ConvForwardCall(input) ==
    /\ layer.kind = "Conv1d"
    /\ \E o \in {Conv_forward(layer, input)} :
          /\ call' = [op |-> "_Conv.forward", input |-> input]
          /\ res' = o
    /\ pc' = "returned"
    /\ UNCHANGED <<running_mean, running_var, updates, layer>>

\* A call of the forward of a ConvTranspose1d layer.
ConvTransposeForwardCall(input) ==
    /\ layer.kind = "ConvTranspose1d"
    /\ \E o \in {ConvTranspose_forward(layer, input)} :
          /\ call' = [op |-> "_ConvTranspose.forward", input |-> input]
          /\ res' = o
    /\ pc' = "returned"
    /\ UNCHANGED <<running_mean, running_var, updates, layer>>

NextConv ==
    \/ /\ pc = "idle"
       /\ \E input \in ConvInputs(layer.in_channels) : ConvForwardCall(input)
    \/ /\ pc = "idle"
       /\ \E input \in ConvInputs(layer.in_channels) :
             ConvTransposeForwardCall(input)
    \/ Return

SpecConv == InitConv /\ [][NextConv]_vars

---------------------------------------------------------------------------
(* Properties of Conv1d and ConvTranspose1d                                *)

IsConvForward == call.op = "_Conv.forward"

IsConvTransposeForward == call.op = "_ConvTranspose.forward"

\* conv(x, W, b) as the layer is configured.
ConvAs(x, weight, bias) ==
    nn_Conv1d(layer, [weight |-> weight, bias |-> bias], x)

\* conv_T(x, W, b) as the layer is configured.
ConvTransposeAs(x, weight, bias) ==
    F_conv_transpose1d(x, weight, bias, ConvTransposeConfig(layer))

\* The third convolution of the call is made with the hyper-parameters of
\* the other two.
SameConfigAsThird == layer.dilation = 1 /\ layer.padding_mode = "zeros"

\* C14: where the three convolutions are made alike, forward of a layer with
\* bias returns conv(z_r, W_r, b_r) - conv(z_i, W_i, b_i) as the real part
\* and conv(z_r, W_i, b_i) + conv(z_i, W_r, b_r) as the imaginary part.
C14_BiasFourConvolutions ==
    (IsConvForward /\ layer.conv_r.bias # None /\ SameConfigAsThird
        /\ ConvInputFits(layer, call.input.real))
    => /\ res.status = "ok"
       /\ res.z.real = TSub(ConvAs(call.input.real, layer.conv_r.weight,
                                   layer.conv_r.bias),
                            ConvAs(call.input.imag, layer.conv_i.weight,
                                   layer.conv_i.bias))
       /\ res.z.imag = TAdd(ConvAs(call.input.real, layer.conv_i.weight,
                                   layer.conv_i.bias),
                            ConvAs(call.input.imag, layer.conv_r.weight,
                                   layer.conv_r.bias))

\* C15: forward of a Conv1d layer without bias returns, for every stride,
\* padding, dilation, number of groups and padding mode, the complex
\* convolution under that configuration: conv(z_r, W_r) - conv(z_i, W_i) as
\* the real part and conv(z_r, W_i) + conv(z_i, W_r) as the imaginary part.
C15_ConvConfigured ==
    (IsConvForward /\ layer.conv_r.bias = None
        /\ ConvInputFits(layer, call.input.real))
    => /\ res.status = "ok"
       /\ res.z.real = TSub(ConvAs(call.input.real, layer.conv_r.weight, None),
                            ConvAs(call.input.imag, layer.conv_i.weight, None))
       /\ res.z.imag = TAdd(ConvAs(call.input.real, layer.conv_i.weight, None),
                            ConvAs(call.input.imag, layer.conv_r.weight, None))

\* C16: forward of a ConvTranspose1d layer without bias returns, for every
\* stride, padding, output_padding, dilation and number of groups, the
\* complex transposed convolution under that configuration.
C16_ConvTransposeConfigured ==
    (IsConvTransposeForward /\ layer.convt_r.bias = None
        /\ ConvTransposeInputFits(layer, call.input.real))
    => /\ res.status = "ok"
       /\ res.z.real = TSub(ConvTransposeAs(call.input.real,
                                            layer.convt_r.weight, None),
                            ConvTransposeAs(call.input.imag,
                                            layer.convt_i.weight, None))
       /\ res.z.imag = TAdd(ConvTransposeAs(call.input.real,
                                            layer.convt_i.weight, None),
                            ConvTransposeAs(call.input.imag,
                                            layer.convt_r.weight, None))

---------------------------------------------------------------------------
(* nn/modules/loss.py                                                      *)

\* x.sum(): the sum of the first n elements, n = Numel(x) for all.
RECURSIVE SumTo(_, _)
SumTo(x, n) == IF n = 0 THEN Zero ELSE RAdd(SumTo(x, n - 1), x.data[n])

TSum(x) == SumTo(x, Numel(x))

TAbs(x) == TMap(LAMBDA v : IF IsFinite(v) /\ v.n < 0 THEN RNeg(v) ELSE v, x)

\* nn.L1Loss() and nn.MSELoss(), reduction = 'mean'.
L1Loss(input, target) ==
    RDiv(TSum(TAbs(TSub(input, target))), Int2R(Numel(input)))

MSELoss(input, target) ==
    RDiv(TSum(TMul(TSub(input, target), TSub(input, target))),
         Int2R(Numel(input)))

\* The call of a real loss module.
ApplyLoss(loss, input, target) ==
    CASE loss = "L1Loss" -> L1Loss(input, target)
      [] loss = "MSELoss" -> MSELoss(input, target)

\* GeneralizedSplitLoss.forward leaving out the imaginary parts.
SplitLossRealOnly(self, x, y) == ApplyLoss(self.loss_r, x.real, y.real)

\* Lines 38-39: GeneralizedSplitLoss.forward.
GeneralizedSplitLoss_forward(self, x, y) ==
    RAdd(ApplyLoss(self.loss_r, x.real, y.real),
         ApplyLoss(self.loss_i, x.imag, y.imag))

\* Lines 78-79 and 89-90: SplitL1() and SplitMSE().
SplitL1 == [kind |-> "SplitL1", loss_r |-> "L1Loss", loss_i |-> "L1Loss"]

SplitMSE == [kind |-> "SplitMSE", loss_r |-> "MSELoss", loss_i |-> "MSELoss"]

\* CVTensor.__sub__ and CVTensor.abs, of the package's CVTensor class.
CVSub(x, y) == CVTensor(TSub(x.real, y.real), TSub(x.imag, y.imag))

CVAbs(x) == TSqrt(TAdd(TMul(x.real, x.real), TMul(x.imag, x.imag)))

\* CVQuadError.forward without the factor 0.5.
QuadErrorWhole(x, y) ==
    CHOOSE v \in {TSum(TMul(a, a)) : a \in {CVAbs(CVSub(x, y))}} : TRUE

\* Line 230: CVQuadError.forward.
CVQuadError_forward(x, y) ==
    CHOOSE v \in {RMul(Rat(1, 2), TSum(TMul(a, a)))
                  : a \in {CVAbs(CVSub(x, y))}} : TRUE

\* Line 248: CVFourthPowError.forward.
CVFourthPowError_forward(x, y) ==
    CHOOSE v \in {RMul(Rat(1, 2), TSum(TMul(TMul(a, a), TMul(a, a))))
                  : a \in {CVAbs(CVSub(x, y))}} : TRUE

\* torch.log(a) for a >= 1, by two rationals that enclose it: log 1 = 0, and
\* the logarithm of any other rational is irrational.  For a >= 1,
\* 2 (a - 1) / (a + 1) <= log a <= (a - 1/a) / 2, with equality at 1 only:
\* the three are equal at 1 and their derivatives 4 / (a + 1)^2, 1/a and
\* (1 + 1/a^2) / 2 are in this order.
LogBounds(a) ==
    IF IsSurd(a) THEN [lo |-> Surd, hi |-> Surd]
    ELSE [lo |-> RDiv(RMul(Int2R(2), RSub(a, One)), RAdd(a, One)),
          hi |-> RDiv(RSub(a, RRecip(a)), Int2R(2))]

\* The sum over the first n elements of c2 / 2 * log(1 + a[i]^2 / c2), a the
\* tensor of the magnitudes: its two bounds.
RECURSIVE CauchySum(_, _, _)
CauchySum(a, c2, n) ==
    IF n = 0 THEN [lo |-> Zero, hi |-> Zero]
    ELSE LET rest == CauchySum(a, c2, n - 1)
             term == LogBounds(RAdd(One, RDiv(RMul(a.data[n], a.data[n]), c2)))
         IN  [lo |-> RAdd(rest.lo, RMul(RDiv(c2, Int2R(2)), term.lo)),
              hi |-> RAdd(rest.hi, RMul(RDiv(c2, Int2R(2)), term.hi))]

\* Lines 262-268: CVCauchyError(c) and its forward, by the two bounds.
CVCauchyError(c) == [kind |-> "CVCauchyError", c2 |-> Int2R(c * c)]

CVCauchyError_forward(self, x, y) ==
    CHOOSE v \in {CauchySum(a, self.c2, Numel(a))
                  : a \in {CVAbs(CVSub(x, y))}} : TRUE

---------------------------------------------------------------------------
(* The caller of a loss module                                             *)

MaxLossValue == 2

MaxLossLen == 2

\* The tensor [n] of the complex numbers pts[1], ..., pts[n], each a pair of
\* integers.
LossTensor(pts) ==
    CVTensor([shape |-> <<Len(pts)>>,
              data |-> [i \in 1..Len(pts) |-> Int2R(pts[i][1])]],
             [shape |-> <<Len(pts)>>,
              data |-> [i \in 1..Len(pts) |-> Int2R(pts[i][2])]])

\* Every tensor [1] with parts in -MaxLossValue..MaxLossValue, and the longer
\* tensors of the three numbers 0, 1 and -2j.
LossInputs ==
    {LossTensor(<<pt>>)
     : pt \in (-MaxLossValue..MaxLossValue) \X (-MaxLossValue..MaxLossValue)}
    \cup UNION {{LossTensor(pts) : pts \in [1..n -> {<<0, 0>>, <<1, 0>>, <<0, -2>>}]}
                : n \in 2..MaxLossLen}

\* The loss modules constructed: the two split losses of the file, a split
\* loss of two different real losses, and the three error functions.
LossModules ==
    {SplitL1, SplitMSE,
     [kind |-> "GeneralizedSplitLoss", loss_r |-> "L1Loss", loss_i |-> "MSELoss"],
     [kind |-> "CVQuadError"], [kind |-> "CVFourthPowError"],
     CVCauchyError(1), CVCauchyError(2)}

InitLoss == InitModule /\ layer \in LossModules

\* The caller has the value v of the loss of x and y.
LossReturns(op, x, y, v) ==
    /\ call' = [op |-> op, x |-> x, y |-> y]
    /\ res' = Outcome("ok", v, None, None)
    /\ pc' = "returned"
    /\ UNCHANGED <<running_mean, running_var, updates, layer>>

SplitLossCall(x, y) ==
    /\ layer.kind \in {"SplitL1", "SplitMSE", "GeneralizedSplitLoss"}
    /\ LossReturns("GeneralizedSplitLoss.forward", x, y,
                   GeneralizedSplitLoss_forward(layer, x, y))

QuadErrorCall(x, y) ==
    /\ layer.kind = "CVQuadError"
    /\ \E v \in {CVQuadError_forward(x, y)} :
          ~IsSurd(v) /\ LossReturns("CVQuadError.forward", x, y, v)

FourthPowErrorCall(x, y) ==
    /\ layer.kind = "CVFourthPowError"
    /\ \E v \in {CVFourthPowError_forward(x, y)} :
          ~IsSurd(v) /\ LossReturns("CVFourthPowError.forward", x, y, v)

CauchyErrorCall(x, y) ==
    /\ layer.kind = "CVCauchyError"
    /\ \E v \in {CVCauchyError_forward(layer, x, y)} :
          ~IsSurd(v.lo) /\ LossReturns("CVCauchyError.forward", x, y, v)

\* The pairs of an input and a target of one shape.
LossPairs == {p \in LossInputs \X LossInputs : p[1].real.shape = p[2].real.shape}

NextLoss ==
    \/ /\ pc = "idle"
       /\ \E p \in LossPairs : SplitLossCall(p[1], p[2])
    \/ /\ pc = "idle"
       /\ \E p \in LossPairs : QuadErrorCall(p[1], p[2])
    \/ /\ pc = "idle"
       /\ \E p \in LossPairs : FourthPowErrorCall(p[1], p[2])
    \/ /\ pc = "idle"
       /\ \E p \in LossPairs : CauchyErrorCall(p[1], p[2])
    \/ Return

SpecLoss == InitLoss /\ [][NextLoss]_vars

---------------------------------------------------------------------------
(* Properties of the losses                                                *)

RLeq(a, b) == a = b \/ RLess(a, b)

\* |a| or a^2 of a rational, as the real loss of that name takes it.
LossTerm(loss, a) ==
    IF loss = "MSELoss" THEN RMul(a, a)
    ELSE IF RLess(a, Zero) THEN RNeg(a) ELSE a

\* The sum over the first n elements of the term of loss_r for the real
\* parts and the term of loss_i for the imaginary parts of x - y.
RECURSIVE SplitTerms(_, _, _, _, _)
SplitTerms(loss_r, loss_i, x, y, n) ==
    IF n = 0 THEN Zero
    ELSE RAdd(SplitTerms(loss_r, loss_i, x, y, n - 1),
              RAdd(LossTerm(loss_r, RSub(x.real.data[n], y.real.data[n])),
                   LossTerm(loss_i, RSub(x.imag.data[n], y.imag.data[n]))))

IsSplitLoss == call.op = "GeneralizedSplitLoss.forward"

RECURSIVE SquaredError(_, _, _)
SquaredError(x, y, n) ==
    IF n = 0 THEN Zero
    ELSE RAdd(SquaredError(x, y, n - 1),
              RAdd(RMul(RSub(x.real.data[n], y.real.data[n]),
                        RSub(x.real.data[n], y.real.data[n])),
                   RMul(RSub(x.imag.data[n], y.imag.data[n]),
                        RSub(x.imag.data[n], y.imag.data[n]))))

IsQuadError == call.op = "CVQuadError.forward"

\* C19: CVQuadError returns half the sum of (x_r - y_r)^2 + (x_i - y_i)^2; the
\* value is not negative, is the value for y and x, and is 0 exactly when
\* x = y.
C19_QuadError ==
    IsQuadError
    => /\ res.z = RMul(Rat(1, 2),
                       SquaredError(call.x, call.y, Numel(call.x.real)))
       /\ RLeq(Zero, res.z)
       /\ res.z = CVQuadError_forward(call.y, call.x)
       /\ res.z = Zero <=> call.x = call.y

\* The error of 2 + 2j against -1 - 2j: the magnitude of 3 + 4j is 5.
C19_Witness ==
    /\ IsQuadError
    /\ call.x = LossTensor(<<<<2, 2>>>>)
    /\ call.y = LossTensor(<<<<-1, -2>>>>)
    /\ res.z = Rat(25, 2)

IsCauchyError == call.op = "CVCauchyError.forward"

\* C20: CVCauchyError with c = 1 returns half the sum of the squares of
\* err * conj(err), the value CVFourthPowError returns: that value lies
\* within the bounds of what the call returned.
C20_CauchyIsFourthPow ==
    (IsCauchyError /\ layer.c2 = One)
    => /\ RLeq(res.z.lo, CVFourthPowError_forward(call.x, call.y))
       /\ RLeq(CVFourthPowError_forward(call.x, call.y), res.z.hi)

---------------------------------------------------------------------------
(* nn/modules/activation/split_type_B.py and apply_complex_polar           *)

\* An angle is kept as the point [cos, sin] it has on the unit circle.
\* atan2(im, re): the direction of re + j im, and the angle 0 for 0.
Angle(re, im) ==
    IF re = Zero /\ im = Zero THEN [cos |-> One, sin |-> Zero]
    ELSE LET r == RSqrt(RAdd(RMul(re, re), RMul(im, im)))
         IN  [cos |-> RDiv(re, r), sin |-> RDiv(im, r)]

\* CVTensor.angle and from_polar, of the package's CVTensor module.
CVAngle(x) ==
    Tensor(x.real.shape, LAMBDA i : Angle(x.real.data[i], x.imag.data[i]))

from_polar(r, phi) ==
    CVTensor(Tensor(r.shape, LAMBDA i : RMul(r.data[i], phi.data[i].cos)),
             Tensor(r.shape, LAMBDA i : RMul(r.data[i], phi.data[i].sin)))

\* Lines 64-65: _Squash.forward.
Squash_forward(input) ==
    TBin(RDiv, TMul(input, input), TShift(TMul(input, input), One))

\* nn.Hardtanh(): the values below -1 and above 1 are cut.
Hardtanh(input) ==
    TMap(LAMBDA v : IF RLess(v, Int2R(-1)) THEN Int2R(-1)
                    ELSE IF RLess(One, v) THEN One ELSE v, input)

\* The call of an activation module; nn.Identity returns its argument.
ApplyModule(fun, input) ==
    CASE fun = "_Squash" -> Squash_forward(input)
      [] fun = "Hardtanh" -> Hardtanh(input)
      [] fun = "Identity" -> input

\* apply_complex_polar with the phase of the conjugate.
PolarConjugate(mag_fun, phase_fun, x) ==
    from_polar(ApplyModule(mag_fun, CVAbs(x)),
               ApplyModule(phase_fun, CVAngle(CVTensor(x.real, TNeg(x.imag)))))

\* functional.py, lines 37-38.
apply_complex_polar(mag_fun, phase_fun, x) ==
    from_polar(ApplyModule(mag_fun, CVAbs(x)), ApplyModule(phase_fun, CVAngle(x)))

\* Lines 24-29: GeneralizedPolarActivation(activation_mag, activation_phase).
GeneralizedPolarActivation(activation_mag, activation_phase) ==
    [kind |-> "GeneralizedPolarActivation",
     activation_mag |-> activation_mag,
     activation_phase |-> IF activation_phase # None THEN activation_phase
                          ELSE "Identity"]

\* Lines 79-80: CVPolarSquash().
CVPolarSquash == GeneralizedPolarActivation("_Squash", None)

\* Lines 31-34: GeneralizedPolarActivation.forward.
GeneralizedPolarActivation_forward(self, input) ==
    apply_complex_polar(self.activation_mag, self.activation_phase, input)

---------------------------------------------------------------------------
(* The caller of a polar activation                                        *)

MaxPolarValue == 4

MaxPolarLen == 2

\* The complex numbers with integer parts and a rational magnitude.
PolarPoints ==
    {pt \in (-MaxPolarValue..MaxPolarValue) \X (-MaxPolarValue..MaxPolarValue)
     : IsSquare(pt[1] * pt[1] + pt[2] * pt[2])}

PolarInputs ==
    UNION {{LossTensor(pts) : pts \in [1..n -> PolarPoints]} : n \in 1..MaxPolarLen}

\* The activations constructed with activation_phase = None.
PolarModules == {CVPolarSquash, GeneralizedPolarActivation("Hardtanh", None)}

InitPolar == InitModule /\ layer \in PolarModules

PolarForwardCall(input) ==
    /\ \E o \in {GeneralizedPolarActivation_forward(layer, input)} :
          /\ ~HasSurd(o.real) /\ ~HasSurd(o.imag)
          /\ call' = [op |-> "GeneralizedPolarActivation.forward",
                      input |-> input]
          /\ res' = Outcome("ok", o, None, None)
    /\ pc' = "returned"
    /\ UNCHANGED <<running_mean, running_var, updates, layer>>

NextPolar ==
    \/ /\ pc = "idle"
       /\ \E input \in PolarInputs : PolarForwardCall(input)
    \/ Return

SpecPolar == InitPolar /\ [][NextPolar]_vars

---------------------------------------------------------------------------
(* Properties of the polar activations                                     *)

IsPolarForward == call.op = "GeneralizedPolarActivation.forward"

\* g_mag(|z|)^2 for |z|^2 = r2, an integer: the square of r2 / (1 + r2) for
\* _Squash, and of the lesser of |z| and 1 for Hardtanh.
MagSquared(fun, r2) ==
    IF fun = "_Squash" THEN RMul(Rat(r2, 1 + r2), Rat(r2, 1 + r2))
    ELSE IF r2 >= 1 THEN One ELSE Zero

\* The complex number o_r + j o_i is of the magnitude that g_mag gives that
\* of re + j im, and has its phase: the same direction, and the phase 0 of
\* the number 0.
KeepsPhase(fun, re, im, o_r, o_i) ==
    /\ RAdd(RMul(o_r, o_r), RMul(o_i, o_i))
          = MagSquared(fun, re.n * re.n + im.n * im.n)
    /\ RMul(o_r, im) = RMul(o_i, re)
    /\ RLeq(Zero, RAdd(RMul(o_r, re), RMul(o_i, im)))
    /\ (re = Zero /\ im = Zero) => (o_i = Zero /\ RLeq(Zero, o_r))

\* C17: an activation built with activation_phase = None returns, at every
\* element z, the number of magnitude g_mag(|z|) and phase angle(z); the
\* magnitude CVPolarSquash returns is at least 0 and less than 1.
C17_PolarKeepsPhase ==
    IsPolarForward
    => /\ res.z.real.shape = call.input.real.shape
       /\ res.z.imag.shape = call.input.real.shape
       /\ \A i \in 1..Numel(call.input.real) :
             /\ KeepsPhase(layer.activation_mag, call.input.real.data[i],
                           call.input.imag.data[i], res.z.real.data[i],
                           res.z.imag.data[i])
             /\ layer.activation_mag = "_Squash"
                  => RLess(RAdd(RMul(res.z.real.data[i], res.z.real.data[i]),
                                RMul(res.z.imag.data[i], res.z.imag.data[i])),
                           One)

\* CVPolarSquash of the tensor of -3 + 4j and 0: the first element of the
\* result is 25/26 of the unit vector (-3 + 4j) / 5.
C17_Witness ==
    /\ IsPolarForward /\ layer = CVPolarSquash
    /\ call.input = LossTensor(<<<<-3, 4>>, <<0, 0>>>>)
    /\ res.z.real.data[1] = Rat(-15, 26)
    /\ res.z.imag.data[1] = Rat(20, 26)
    /\ res.z.real.data[2] = Zero

---------------------------------------------------------------------------
(* nn/modules/manifold.py: wFMConv1d, by shapes                            *)

\* x.unsqueeze(-2) on a shape: an axis of size 1 before the last axis.
UnsqueezeBeforeLast(xs) ==
    SubSeq(xs, 1, Len(xs) - 1) \o <<1>> \o SubSeq(xs, Len(xs), Len(xs))

\* x.squeeze() on a shape: every axis of size 1 is removed.
SqueezeShape(xs) == SelectSeq(xs, LAMBDA n : n # 1)

\* Lines 278-304: wFMConv1d(in_channels, out_channels, kernel_size, stride,
\* padding), which holds a wFMConv2d of kernel (1, kernel_size), stride
\* (1, stride) and padding (0, padding).
wFMConv1d(in_channels, out_channels, kernel_size, stride, padding) ==
    [kind |-> "wFMConv1d", in_channels |-> in_channels,
     out_channels |-> out_channels, kernel_size |-> kernel_size,
     stride |-> stride, padding |-> padding,
     conv1d |-> [in_channels |-> in_channels, out_channels |-> out_channels,
                 kernel_size |-> <<1, kernel_size>>, stride |-> <<1, stride>>,
                 padding |-> <<0, padding>>, fold |-> None]]

\* Lines 306-307: wFMConv1d.forward on a CVTensor of shape xs; unsqueeze(-2)
\* of a tensor without axes raises.
wFMConv1d_forward(self, xs) ==
    IF Len(xs) = 0
    THEN Outcome("IndexError", None, None, None)
    ELSE CHOOSE v \in
           {IF o.status # "ok" THEN o
            ELSE Outcome("ok", OfShape(SqueezeShape(o.z.shape)), None, None)
            : o \in {wFMConv2d_forward(self.conv1d, UnsqueezeBeforeLast(xs))}}
           : TRUE

---------------------------------------------------------------------------
(* The caller of a wFMConv1d layer                                         *)

MaxFMSide == 4

MaxFMRank == 3

wFMConv1dLayers ==
    {wFMConv1d(i, o, k, s, p) :
        i \in 1..MaxChannels, o \in 1..MaxChannels, k \in 1..MaxKernel,
        s \in 1..MaxStride, p \in 0..MaxPadding}

wFMConv1dShapes == UNION {[1..r -> 1..MaxFMSide] : r \in 0..MaxFMRank}

InitFM1d == InitModule /\ layer \in wFMConv1dLayers

\* A call of the forward of the layer on a CVTensor of shape xs.  The
\* wFMConv2d it holds sets its fold once past its assertion.
Conv1dForwardCall(xs) ==
    \E o \in {wFMConv1d_forward(layer, xs)} :
       /\ call' = [op |-> "wFMConv1d.forward", shape |-> xs]
       /\ res' = o
       /\ layer' = IF o.status \in {"IndexError", "ValueError", "AssertionError"}
                   THEN layer
                   ELSE [layer EXCEPT !.conv1d.fold =
                            [output_size |-> <<1, xs[Len(xs)]>>]]
       /\ pc' = "returned"
       /\ UNCHANGED <<running_mean, running_var, updates>>

NextFM1d ==
    \/ /\ pc = "idle"
       /\ \E xs \in wFMConv1dShapes : Conv1dForwardCall(xs)
    \/ Return

SpecFM1d == InitFM1d /\ [][NextFM1d]_vars

---------------------------------------------------------------------------
(* Properties of wFMConv1d                                                 *)

IsConv1dForward == call.op = "wFMConv1d.forward"

\* floor((L + 2 * padding - kernel_size) / stride) + 1.
OutputLength(self, L) ==
    ((L + 2 * self.padding - self.kernel_size) \div self.stride) + 1

\* The input is (B, in_channels, L) and the kernel fits in the padded length.
Conv1dInputFits ==
    /\ Len(call.shape) = 3
    /\ call.shape[2] = layer.in_channels
    /\ call.shape[3] + 2 * layer.padding >= layer.kernel_size

\* C21: forward of a wFMConv1d layer on an input of shape (B, in_channels,
\* L) returns a tensor of shape (B, out_channels, L_out), also where B,
\* out_channels or L_out is 1.
C21_Conv1dShape ==
    (IsConv1dForward /\ Conv1dInputFits)
    => /\ res.status = "ok"
       /\ res.z.shape = <<call.shape[1], layer.out_channels,
                          OutputLength(layer, call.shape[3])>>

---------------------------------------------------------------------------
(* The caller of _whiten2x2_batch_norm                                     *)

\* The ridge coefficients tried: none, and two that give some inputs of the
\* model rational square roots.
RidgeEps == {Zero, Rat(9, 16), Rat(1, 4)}

\* A call of _whiten2x2_batch_norm with the caller's running statistics on
\* the parts of x stacked, [2, B, F, ...].  A square root that is
\* irrational leaves Surd in the result.  The caller stops after MaxUpdates
\* calls that changed its statistics.
WhitenCall(x, stats, training, eps) ==
    /\ updates < MaxUpdates
    /\ \E o \in {whiten2x2_batch_norm(Stack(<<x.real, x.imag>>), training,
                                      First(stats, running_mean),
                                      Second(stats, running_var), Momentum, eps)} :
          \E changed \in {(stats \in {"both", "first"}
                              /\ o.running_mean # running_mean)
                          \/ (stats \in {"both", "second"}
                              /\ o.running_cov # running_var)} :
             /\ call' = [op |-> "_whiten2x2_batch_norm",
                         x |-> Stack(<<x.real, x.imag>>), training |-> training,
                         eps |-> eps,
                         running_mean |-> First(stats, running_mean),
                         running_cov |-> Second(stats, running_var)]
             /\ res' = o
             /\ running_mean' = IF stats \in {"both", "first"} THEN o.running_mean
                                ELSE running_mean
             /\ running_var' = IF stats \in {"both", "second"} THEN o.running_cov
                               ELSE running_var
             /\ updates' = IF changed THEN updates + 1 ELSE updates
             /\ pc' = "returned"
             /\ UNCHANGED layer

NextRidge ==
    \/ /\ pc = "idle"
       /\ \E x \in Inputs(Features), stats \in Pairings, training \in BOOLEAN,
             eps \in RidgeEps :
             WhitenCall(x, stats, training, eps)
    \/ Return

SpecRidge == Init /\ [][NextRidge]_vars

---------------------------------------------------------------------------
(* Properties of the ridge term                                            *)

IsWhitenCall == call.op = "_whiten2x2_batch_norm"

\* The call took the covariance from the batch, with a ridge coefficient
\* above 0, and returned.
RidgedBatchCov ==
    /\ IsWhitenCall /\ res.status = "ok"
    /\ UseBatch(call.training, call.running_cov)
    /\ RLess(Zero, call.eps)

\* The covariance the call handed to inv_sqrtm2x2.
CallCov ==
    BatchCov(Centered(call.x, call.training, call.running_mean), call.eps)

Delta(cov, f) ==
    RSub(RMul(cov.v_rr.data[f], cov.v_ii.data[f]),
         RMul(cov.v_ir.data[f], cov.v_ir.data[f]))

Tau(cov, f) == RAdd(cov.v_rr.data[f], cov.v_ii.data[f])

\* A number that is neither nan nor infinite: a rational, or an irrational
\* square root and what is computed from it.
IsNumber(a) == IsFinite(a) \/ IsSurd(a)

\* C22: where the covariance is that of the batch and eps > 0, at every
\* feature delta = v_rr * v_ii - v_ir^2 >= eps^2 > 0 and tau > 0, so
\* sqrt(delta) is a positive number, tau + 2 sqrt(delta) > 0, and the result
\* holds neither nan nor an infinity.
C22_RidgeKeepsDefined ==
    RidgedBatchCov
    => /\ \A f \in 1..Numel(CallCov.v_rr) :
             /\ RLeq(RMul(call.eps, call.eps), Delta(CallCov, f))
             /\ RLess(Zero, RMul(call.eps, call.eps))
             /\ RLess(Zero, Tau(CallCov, f))
             /\ RSqrt(Delta(CallCov, f)) \notin {NaN, Zero}
       /\ \A i \in 1..Numel(res.z) : IsNumber(res.z.data[i])

\* A call with eps > 0 on a batch of two features, one with its real and
\* imaginary parts perfectly correlated and not constant, one constant.
C22_Witness ==
    /\ RidgedBatchCov
    /\ \E f \in 1..Numel(CallCov.v_rr) :
          /\ RMul(RSub(CallCov.v_rr.data[f], call.eps),
                  RSub(CallCov.v_ii.data[f], call.eps))
               = RMul(CallCov.v_ir.data[f], CallCov.v_ir.data[f])
          /\ CallCov.v_ir.data[f] # Zero
    /\ \E f \in 1..Numel(CallCov.v_rr) :
          /\ CallCov.v_rr.data[f] = call.eps
          /\ CallCov.v_ii.data[f] = call.eps

---------------------------------------------------------------------------
(* The caller of cv_layer_norm                                             *)

MaxLayerBatch == 2

MaxLayerFeatures == 2

\* The length of an axis that holds each point of a pattern once.
PatternLength == Len(Corner)

\* Input data for layer normalisation.  The points of one batch element are
\* taken in turn from one pattern, and batch element b of sample k follows
\* pattern k + b - 1, so the elements of one batch differ.  The patterns
\* "scaled" and "shifted" are the corners of a square of side 4, about 0
\* and about 3: each has the covariance 4 I, and the two in one batch have
\* a covariance over the batch, [[25/4, 0], [0, 4]], with a rational square
\* root.
LayerKinds == <<"unit", "const", "skew", "scaled", "shifted">>

LayerPattern(k, i) ==
    CASE k = "scaled" ->
           <<2 * Pattern("unit", i)[1], 2 * Pattern("unit", i)[2]>>
      [] k = "shifted" ->
           <<2 * Pattern("unit", i)[1] + 3, 2 * Pattern("unit", i)[2]>>
      [] OTHER -> Pattern(k, i)

LayerKindOf(k, b) == LayerKinds[((k + b - 2) % Len(LayerKinds)) + 1]

LayerSample(shape, k) ==
    CVTensor(TensorAt(shape, LAMBDA t :
                 Int2R(LayerPattern(LayerKindOf(k, t[1]),
                                    Flat(Tail(t), Tail(shape)) + 1)[1])),
             TensorAt(shape, LAMBDA t :
                 Int2R(LayerPattern(LayerKindOf(k, t[1]),
                                    Flat(Tail(t), Tail(shape)) + 1)[2])))

LayerShapes ==
    {<<B, PatternLength>> : B \in 1..MaxLayerBatch}
        \cup {<<B, F, PatternLength>> : B \in 1..MaxLayerBatch,
                                         F \in 1..MaxLayerFeatures}

LayerInputs ==
    {LayerSample(sh, k) : sh \in LayerShapes, k \in 1..Len(LayerKinds)}

InitLayer == InitModule /\ layer = NoLayer

NextLayer ==
    \/ /\ pc = "idle"
       /\ \E x \in LayerInputs :
             \E ns \in NormalizedShapes(x), affine \in Pairings, eps \in EpsSet :
                LayerNormCall(x, ns, affine, eps)
    \/ Return

SpecLayer == InitLayer /\ [][NextLayer]_vars

---------------------------------------------------------------------------
(* Properties of layer normalisation                                       *)

IsLayerNorm == call.op = "cv_layer_norm"

\* Element b of the leading axis of x, as a tensor with one such element.
BatchSlice(x, b) ==
    [shape |-> <<1>> \o Tail(x.shape),
     data |-> [i \in 1..(Numel(x) \div x.shape[1]) |->
                  x.data[(b - 1) * (Numel(x) \div x.shape[1]) + i]]]

CVBatchSlice(x, b) == CVTensor(BatchSlice(x.real, b), BatchSlice(x.imag, b))

\* The call returned, and the leading axis of its input is not one of the
\* axes of normalized_shape.
PerSampleCall ==
    /\ IsLayerNorm /\ res.status = "ok"
    /\ Len(call.normalized_shape) < Dim(call.x.real)

\* cv_layer_norm of batch element b alone, with the arguments of the call.
AloneOutcome(b) ==
    cv_layer_norm(CVBatchSlice(call.x, b), call.normalized_shape,
                  First(call.affine, LayerWeight(call.normalized_shape)),
                  Second(call.affine, LayerBias(call.normalized_shape)),
                  call.eps)

\* C23: where the leading axis is not part of normalized_shape, batch
\* element b of the result of cv_layer_norm is the result for batch element
\* b of the input alone, whatever the other elements are; and the call
\* leaves no statistics with the caller.
C23_LayerNormPerSample ==
    /\ PerSampleCall
       => \A b \in 1..call.x.real.shape[1] :
             /\ AloneOutcome(b).status = "ok"
             /\ CVBatchSlice(res.z, b) = AloneOutcome(b).z
    /\ IsLayerNorm
       => /\ res.running_mean = None /\ res.running_cov = None
          /\ running_mean = None /\ running_var = None /\ updates = 0

\* A call on a batch of two elements with features, normalised over the
\* last axis, whose two elements of the result differ.
C23_Witness ==
    /\ PerSampleCall
    /\ call.x.real.shape = <<MaxLayerBatch, MaxLayerFeatures, PatternLength>>
    /\ Len(call.normalized_shape) = 1
    /\ call.affine = "both"
    /\ BatchSlice(res.z.real, 1) # BatchSlice(res.z.real, 2)

=============================================================================
